---- MODULE Spec2Model ----
(***************************************************************************)
(* Model of webrtc_zonder_user.py: the batch job that gives every active   *)
(* user without a WebRTC phone a phone cloned from a template, sets it as  *)
(* the default station and assigns a routing skill and a routing language. *)
(*                                                                         *)
(* The program is sequential.  Every HTTP request is one step of the model *)
(* whose response is chosen by the remote system: an HTTP status, or a     *)
(* transport exception raised by the requests library (status NoResponse). *)
(* The remote system's state (catalogues, user directory, stations,        *)
(* routing skills and languages of the users) survives from one run of the *)
(* job to the next; the program's own state is rebuilt by every run.       *)
(*                                                                         *)
(* Text is modelled as a tuple of one-character strings so that strip()    *)
(* and lower() are computed, not assumed.  None and the empty string, both *)
(* falsy in Python, are the empty string NoId for ids.                     *)
(***************************************************************************)
EXTENDS Integers, Sequences, FiniteSets, TLC

(***************************************************************************)
(* Bounds of the model (not program constants).                            *)
(***************************************************************************)
\* number of runs of the job against the same remote system
MaxRuns == 2
\* number of pages of a user's routing-skill / routing-language listing
CapPages == 2
\* largest number of pages of a listing, largest MAX_USERS, the paged fetches
\* are tried with
MaxDirPages == 3
MaxCap == 2
\* the negative MAX_USERS, down to -MaxNegCap, they are tried with as well
MaxNegCap == 1
\* largest number of fields of a station state is_default_station_set is
\* tried with
MaxKeys == 2
\* GET /users requests a run is followed for; a fetch makes one per page
MaxFetches == MaxDirPages + 1

(***************************************************************************)
(* Program constants.                                                      *)
(***************************************************************************)
\* for attempt in range(1, DEFAULT_STATION_VERIFY_RETRIES + 1)
DEFAULT_STATION_VERIFY_RETRIES == 8
\* for _ in range(1, 7): six association polls
ASSOC_POLLS == 6
MAX_USERS == 0
TARGET_SKILL_PROFICIENCY == 0
TARGET_LANGUAGE_PROFICIENCY == 0

NoId == ""

(***************************************************************************)
(* Text.  A Python str is modelled as the tuple of its Unicode code        *)
(* points (0 to 1114111), so that str.strip() and str.lower() act on       *)
(* every character a name of the remote system can hold.                   *)
(***************************************************************************)
\* the characters chr(32) to chr(95), in order
PrintableLow == <<
    " ", "!", "\"", "#", "$", "%", "&", "'", "(", ")", "*", "+", ",", "-", ".", "/",
    "0", "1", "2", "3", "4", "5", "6", "7", "8", "9", ":", ";", "<", "=", ">", "?",
    "@", "A", "B", "C", "D", "E", "F", "G", "H", "I", "J", "K", "L", "M", "N", "O",
    "P", "Q", "R", "S", "T", "U", "V", "W", "X", "Y", "Z", "[", "\\", "]", "^", "_" >>

\* the characters chr(97) to chr(122), in order
SmallLetters == <<
    "a", "b", "c", "d", "e", "f", "g", "h", "i", "j", "k", "l", "m", "n", "o", "p",
    "q", "r", "s", "t", "u", "v", "w", "x", "y", "z" >>

\* ord(ch) of a blank, a digit, a letter or a punctuation mark of
\* PrintableLow
Ord(ch) ==
    IF \E i \in 1..Len(SmallLetters) : SmallLetters[i] = ch
    THEN 96 + CHOOSE i \in 1..Len(SmallLetters) : SmallLetters[i] = ch
    ELSE 31 + CHOOSE i \in 1..Len(PrintableLow) : PrintableLow[i] = ch

\* the str written with the given characters
Text(chars) == [i \in 1..Len(chars) |-> Ord(chars[i])]

\* the code points c with chr(c).strip() == "": tab to carriage return, the
\* four separators 28 to 31, blank, next line (133), no-break space (160),
\* ogham space mark (5760), en quad to hair space (8192 to 8202), line and
\* paragraph separator (8232, 8233), narrow no-break space (8239), medium
\* mathematical space (8287) and ideographic space (12288)
WhiteChars ==
    (9..13) \cup (28..32) \cup {133, 160, 5760} \cup (8192..8202)
        \cup {8232, 8233, 8239, 8287, 12288}

\* str.lower() of one character that lowers to one character: <<lo, hi,
\* step, delta>> says that the code points lo, lo + step, ... up to hi lower
\* to themselves plus delta; every other code point lowers to itself, but
\* for 304 (see ToLowerFull)
LowerTable == {
    <<65, 90, 1, 32>>, <<192, 214, 1, 32>>, <<216, 222, 1, 32>>, <<256, 302, 2, 1>>, <<306, 310, 2, 1>>,
    <<313, 327, 2, 1>>, <<330, 374, 2, 1>>, <<376, 376, 1, -121>>, <<377, 381, 2, 1>>, <<385, 385, 1, 210>>,
    <<386, 388, 2, 1>>, <<390, 390, 1, 206>>, <<391, 391, 1, 1>>, <<393, 394, 1, 205>>, <<395, 395, 1, 1>>,
    <<398, 398, 1, 79>>, <<399, 399, 1, 202>>, <<400, 400, 1, 203>>, <<401, 401, 1, 1>>, <<403, 403, 1, 205>>,
    <<404, 404, 1, 207>>, <<406, 406, 1, 211>>, <<407, 407, 1, 209>>, <<408, 408, 1, 1>>, <<412, 412, 1, 211>>,
    <<413, 413, 1, 213>>, <<415, 415, 1, 214>>, <<416, 420, 2, 1>>, <<422, 422, 1, 218>>, <<423, 423, 1, 1>>,
    <<425, 425, 1, 218>>, <<428, 428, 1, 1>>, <<430, 430, 1, 218>>, <<431, 431, 1, 1>>, <<433, 434, 1, 217>>,
    <<435, 437, 2, 1>>, <<439, 439, 1, 219>>, <<440, 440, 1, 1>>, <<444, 444, 1, 1>>, <<452, 452, 1, 2>>,
    <<453, 453, 1, 1>>, <<455, 455, 1, 2>>, <<456, 456, 1, 1>>, <<458, 458, 1, 2>>, <<459, 475, 2, 1>>,
    <<478, 494, 2, 1>>, <<497, 497, 1, 2>>, <<498, 500, 2, 1>>, <<502, 502, 1, -97>>, <<503, 503, 1, -56>>,
    <<504, 542, 2, 1>>, <<544, 544, 1, -130>>, <<546, 562, 2, 1>>, <<570, 570, 1, 10795>>, <<571, 571, 1, 1>>,
    <<573, 573, 1, -163>>, <<574, 574, 1, 10792>>, <<577, 577, 1, 1>>, <<579, 579, 1, -195>>, <<580, 580, 1, 69>>,
    <<581, 581, 1, 71>>, <<582, 590, 2, 1>>, <<880, 882, 2, 1>>, <<886, 886, 1, 1>>, <<895, 895, 1, 116>>,
    <<902, 902, 1, 38>>, <<904, 906, 1, 37>>, <<908, 908, 1, 64>>, <<910, 911, 1, 63>>, <<913, 929, 1, 32>>,
    <<931, 939, 1, 32>>, <<975, 975, 1, 8>>, <<984, 1006, 2, 1>>, <<1012, 1012, 1, -60>>, <<1015, 1015, 1, 1>>,
    <<1017, 1017, 1, -7>>, <<1018, 1018, 1, 1>>, <<1021, 1023, 1, -130>>, <<1024, 1039, 1, 80>>, <<1040, 1071, 1, 32>>,
    <<1120, 1152, 2, 1>>, <<1162, 1214, 2, 1>>, <<1216, 1216, 1, 15>>, <<1217, 1229, 2, 1>>, <<1232, 1326, 2, 1>>,
    <<1329, 1366, 1, 48>>, <<4256, 4293, 1, 7264>>, <<4295, 4295, 1, 7264>>, <<4301, 4301, 1, 7264>>, <<5024, 5103, 1, 38864>>,
    <<5104, 5109, 1, 8>>, <<7312, 7354, 1, -3008>>, <<7357, 7359, 1, -3008>>, <<7680, 7828, 2, 1>>, <<7838, 7838, 1, -7615>>,
    <<7840, 7934, 2, 1>>, <<7944, 7951, 1, -8>>, <<7960, 7965, 1, -8>>, <<7976, 7983, 1, -8>>, <<7992, 7999, 1, -8>>,
    <<8008, 8013, 1, -8>>, <<8025, 8031, 2, -8>>, <<8040, 8047, 1, -8>>, <<8072, 8079, 1, -8>>, <<8088, 8095, 1, -8>>,
    <<8104, 8111, 1, -8>>, <<8120, 8121, 1, -8>>, <<8122, 8123, 1, -74>>, <<8124, 8124, 1, -9>>, <<8136, 8139, 1, -86>>,
    <<8140, 8140, 1, -9>>, <<8152, 8153, 1, -8>>, <<8154, 8155, 1, -100>>, <<8168, 8169, 1, -8>>, <<8170, 8171, 1, -112>>,
    <<8172, 8172, 1, -7>>, <<8184, 8185, 1, -128>>, <<8186, 8187, 1, -126>>, <<8188, 8188, 1, -9>>, <<8486, 8486, 1, -7517>>,
    <<8490, 8490, 1, -8383>>, <<8491, 8491, 1, -8262>>, <<8498, 8498, 1, 28>>, <<8544, 8559, 1, 16>>, <<8579, 8579, 1, 1>>,
    <<9398, 9423, 1, 26>>, <<11264, 11311, 1, 48>>, <<11360, 11360, 1, 1>>, <<11362, 11362, 1, -10743>>, <<11363, 11363, 1, -3814>>,
    <<11364, 11364, 1, -10727>>, <<11367, 11371, 2, 1>>, <<11373, 11373, 1, -10780>>, <<11374, 11374, 1, -10749>>, <<11375, 11375, 1, -10783>>,
    <<11376, 11376, 1, -10782>>, <<11378, 11378, 1, 1>>, <<11381, 11381, 1, 1>>, <<11390, 11391, 1, -10815>>, <<11392, 11490, 2, 1>>,
    <<11499, 11501, 2, 1>>, <<11506, 11506, 1, 1>>, <<42560, 42604, 2, 1>>, <<42624, 42650, 2, 1>>, <<42786, 42798, 2, 1>>,
    <<42802, 42862, 2, 1>>, <<42873, 42875, 2, 1>>, <<42877, 42877, 1, -35332>>, <<42878, 42886, 2, 1>>, <<42891, 42891, 1, 1>>,
    <<42893, 42893, 1, -42280>>, <<42896, 42898, 2, 1>>, <<42902, 42920, 2, 1>>, <<42922, 42922, 1, -42308>>, <<42923, 42923, 1, -42319>>,
    <<42924, 42924, 1, -42315>>, <<42925, 42925, 1, -42305>>, <<42926, 42926, 1, -42308>>, <<42928, 42928, 1, -42258>>, <<42929, 42929, 1, -42282>>,
    <<42930, 42930, 1, -42261>>, <<42931, 42931, 1, 928>>, <<42932, 42946, 2, 1>>, <<42948, 42948, 1, -48>>, <<42949, 42949, 1, -42307>>,
    <<42950, 42950, 1, -35384>>, <<42951, 42953, 2, 1>>, <<42960, 42960, 1, 1>>, <<42966, 42968, 2, 1>>, <<42997, 42997, 1, 1>>,
    <<65313, 65338, 1, 32>>, <<66560, 66599, 1, 40>>, <<66736, 66771, 1, 40>>, <<66928, 66964, 2, 39>>, <<66929, 66937, 2, 39>>,
    <<66941, 66953, 2, 39>>, <<66957, 66961, 2, 39>>, <<66965, 66965, 1, 39>>, <<68736, 68786, 1, 64>>, <<71840, 71871, 1, 32>>,
    <<93760, 93791, 1, 32>>, <<125184, 125217, 1, 34>> }

\* the code points lo..hi with the property Cased
CasedRanges == {
    <<65, 90>>, <<97, 122>>, <<170, 170>>, <<181, 181>>, <<186, 186>>, <<192, 214>>,
    <<216, 246>>, <<248, 442>>, <<444, 447>>, <<452, 659>>, <<661, 696>>, <<704, 705>>,
    <<736, 740>>, <<837, 837>>, <<880, 883>>, <<886, 887>>, <<890, 893>>, <<895, 895>>,
    <<902, 902>>, <<904, 906>>, <<908, 908>>, <<910, 929>>, <<931, 1013>>, <<1015, 1153>>,
    <<1162, 1327>>, <<1329, 1366>>, <<1376, 1416>>, <<4256, 4293>>, <<4295, 4295>>, <<4301, 4301>>,
    <<4304, 4346>>, <<4349, 4351>>, <<5024, 5109>>, <<5112, 5117>>, <<7296, 7304>>, <<7312, 7354>>,
    <<7357, 7359>>, <<7424, 7615>>, <<7680, 7957>>, <<7960, 7965>>, <<7968, 8005>>, <<8008, 8013>>,
    <<8016, 8023>>, <<8025, 8025>>, <<8027, 8027>>, <<8029, 8029>>, <<8031, 8061>>, <<8064, 8116>>,
    <<8118, 8124>>, <<8126, 8126>>, <<8130, 8132>>, <<8134, 8140>>, <<8144, 8147>>, <<8150, 8155>>,
    <<8160, 8172>>, <<8178, 8180>>, <<8182, 8188>>, <<8305, 8305>>, <<8319, 8319>>, <<8336, 8348>>,
    <<8450, 8450>>, <<8455, 8455>>, <<8458, 8467>>, <<8469, 8469>>, <<8473, 8477>>, <<8484, 8484>>,
    <<8486, 8486>>, <<8488, 8488>>, <<8490, 8493>>, <<8495, 8500>>, <<8505, 8505>>, <<8508, 8511>>,
    <<8517, 8521>>, <<8526, 8526>>, <<8544, 8575>>, <<8579, 8580>>, <<9398, 9449>>, <<11264, 11492>>,
    <<11499, 11502>>, <<11506, 11507>>, <<11520, 11557>>, <<11559, 11559>>, <<11565, 11565>>, <<42560, 42605>>,
    <<42624, 42653>>, <<42786, 42887>>, <<42891, 42894>>, <<42896, 42954>>, <<42960, 42961>>, <<42963, 42963>>,
    <<42965, 42969>>, <<42997, 42998>>, <<43000, 43002>>, <<43824, 43866>>, <<43868, 43880>>, <<43888, 43967>>,
    <<64256, 64262>>, <<64275, 64279>>, <<65313, 65338>>, <<65345, 65370>>, <<66560, 66639>>, <<66736, 66771>>,
    <<66776, 66811>>, <<66928, 66938>>, <<66940, 66954>>, <<66956, 66962>>, <<66964, 66965>>, <<66967, 66977>>,
    <<66979, 66993>>, <<66995, 67001>>, <<67003, 67004>>, <<67456, 67456>>, <<67459, 67461>>, <<67463, 67504>>,
    <<67506, 67514>>, <<68736, 68786>>, <<68800, 68850>>, <<71840, 71903>>, <<93760, 93823>>, <<119808, 119892>>,
    <<119894, 119964>>, <<119966, 119967>>, <<119970, 119970>>, <<119973, 119974>>, <<119977, 119980>>, <<119982, 119993>>,
    <<119995, 119995>>, <<119997, 120003>>, <<120005, 120069>>, <<120071, 120074>>, <<120077, 120084>>, <<120086, 120092>>,
    <<120094, 120121>>, <<120123, 120126>>, <<120128, 120132>>, <<120134, 120134>>, <<120138, 120144>>, <<120146, 120485>>,
    <<120488, 120512>>, <<120514, 120538>>, <<120540, 120570>>, <<120572, 120596>>, <<120598, 120628>>, <<120630, 120654>>,
    <<120656, 120686>>, <<120688, 120712>>, <<120714, 120744>>, <<120746, 120770>>, <<120772, 120779>>, <<122624, 122633>>,
    <<122635, 122654>>, <<125184, 125251>>, <<127280, 127305>>, <<127312, 127337>>, <<127344, 127369>> }

\* the code points lo..hi with the property Case_Ignorable
CaseIgnorableRanges == {
    <<39, 39>>, <<46, 46>>, <<58, 58>>, <<94, 94>>, <<96, 96>>, <<168, 168>>,
    <<173, 173>>, <<175, 175>>, <<180, 180>>, <<183, 184>>, <<688, 879>>, <<884, 885>>,
    <<890, 890>>, <<900, 901>>, <<903, 903>>, <<1155, 1161>>, <<1369, 1369>>, <<1375, 1375>>,
    <<1425, 1469>>, <<1471, 1471>>, <<1473, 1474>>, <<1476, 1477>>, <<1479, 1479>>, <<1524, 1524>>,
    <<1536, 1541>>, <<1552, 1562>>, <<1564, 1564>>, <<1600, 1600>>, <<1611, 1631>>, <<1648, 1648>>,
    <<1750, 1757>>, <<1759, 1768>>, <<1770, 1773>>, <<1807, 1807>>, <<1809, 1809>>, <<1840, 1866>>,
    <<1958, 1968>>, <<2027, 2037>>, <<2042, 2042>>, <<2045, 2045>>, <<2070, 2093>>, <<2137, 2139>>,
    <<2184, 2184>>, <<2192, 2193>>, <<2200, 2207>>, <<2249, 2306>>, <<2362, 2362>>, <<2364, 2364>>,
    <<2369, 2376>>, <<2381, 2381>>, <<2385, 2391>>, <<2402, 2403>>, <<2417, 2417>>, <<2433, 2433>>,
    <<2492, 2492>>, <<2497, 2500>>, <<2509, 2509>>, <<2530, 2531>>, <<2558, 2558>>, <<2561, 2562>>,
    <<2620, 2620>>, <<2625, 2626>>, <<2631, 2632>>, <<2635, 2637>>, <<2641, 2641>>, <<2672, 2673>>,
    <<2677, 2677>>, <<2689, 2690>>, <<2748, 2748>>, <<2753, 2757>>, <<2759, 2760>>, <<2765, 2765>>,
    <<2786, 2787>>, <<2810, 2815>>, <<2817, 2817>>, <<2876, 2876>>, <<2879, 2879>>, <<2881, 2884>>,
    <<2893, 2893>>, <<2901, 2902>>, <<2914, 2915>>, <<2946, 2946>>, <<3008, 3008>>, <<3021, 3021>>,
    <<3072, 3072>>, <<3076, 3076>>, <<3132, 3132>>, <<3134, 3136>>, <<3142, 3144>>, <<3146, 3149>>,
    <<3157, 3158>>, <<3170, 3171>>, <<3201, 3201>>, <<3260, 3260>>, <<3263, 3263>>, <<3270, 3270>>,
    <<3276, 3277>>, <<3298, 3299>>, <<3328, 3329>>, <<3387, 3388>>, <<3393, 3396>>, <<3405, 3405>>,
    <<3426, 3427>>, <<3457, 3457>>, <<3530, 3530>>, <<3538, 3540>>, <<3542, 3542>>, <<3633, 3633>>,
    <<3636, 3642>>, <<3654, 3662>>, <<3761, 3761>>, <<3764, 3772>>, <<3782, 3782>>, <<3784, 3789>>,
    <<3864, 3865>>, <<3893, 3893>>, <<3895, 3895>>, <<3897, 3897>>, <<3953, 3966>>, <<3968, 3972>>,
    <<3974, 3975>>, <<3981, 3991>>, <<3993, 4028>>, <<4038, 4038>>, <<4141, 4144>>, <<4146, 4151>>,
    <<4153, 4154>>, <<4157, 4158>>, <<4184, 4185>>, <<4190, 4192>>, <<4209, 4212>>, <<4226, 4226>>,
    <<4229, 4230>>, <<4237, 4237>>, <<4253, 4253>>, <<4348, 4348>>, <<4957, 4959>>, <<5906, 5908>>,
    <<5938, 5939>>, <<5970, 5971>>, <<6002, 6003>>, <<6068, 6069>>, <<6071, 6077>>, <<6086, 6086>>,
    <<6089, 6099>>, <<6103, 6103>>, <<6109, 6109>>, <<6155, 6159>>, <<6211, 6211>>, <<6277, 6278>>,
    <<6313, 6313>>, <<6432, 6434>>, <<6439, 6440>>, <<6450, 6450>>, <<6457, 6459>>, <<6679, 6680>>,
    <<6683, 6683>>, <<6742, 6742>>, <<6744, 6750>>, <<6752, 6752>>, <<6754, 6754>>, <<6757, 6764>>,
    <<6771, 6780>>, <<6783, 6783>>, <<6823, 6823>>, <<6832, 6862>>, <<6912, 6915>>, <<6964, 6964>>,
    <<6966, 6970>>, <<6972, 6972>>, <<6978, 6978>>, <<7019, 7027>>, <<7040, 7041>>, <<7074, 7077>>,
    <<7080, 7081>>, <<7083, 7085>>, <<7142, 7142>>, <<7144, 7145>>, <<7149, 7149>>, <<7151, 7153>>,
    <<7212, 7219>>, <<7222, 7223>>, <<7288, 7293>>, <<7376, 7378>>, <<7380, 7392>>, <<7394, 7400>>,
    <<7405, 7405>>, <<7412, 7412>>, <<7416, 7417>>, <<7468, 7530>>, <<7544, 7544>>, <<7579, 7679>>,
    <<8125, 8125>>, <<8127, 8129>>, <<8141, 8143>>, <<8157, 8159>>, <<8173, 8175>>, <<8189, 8190>>,
    <<8203, 8207>>, <<8216, 8217>>, <<8228, 8228>>, <<8231, 8231>>, <<8234, 8238>>, <<8288, 8292>>,
    <<8294, 8303>>, <<8305, 8305>>, <<8319, 8319>>, <<8336, 8348>>, <<8400, 8432>>, <<11388, 11389>>,
    <<11503, 11505>>, <<11631, 11631>>, <<11647, 11647>>, <<11744, 11775>>, <<11823, 11823>>, <<12293, 12293>>,
    <<12330, 12333>>, <<12337, 12341>>, <<12347, 12347>>, <<12441, 12446>>, <<12540, 12542>>, <<40981, 40981>>,
    <<42232, 42237>>, <<42508, 42508>>, <<42607, 42610>>, <<42612, 42621>>, <<42623, 42623>>, <<42652, 42655>>,
    <<42736, 42737>>, <<42752, 42785>>, <<42864, 42864>>, <<42888, 42890>>, <<42994, 42996>>, <<43000, 43001>>,
    <<43010, 43010>>, <<43014, 43014>>, <<43019, 43019>>, <<43045, 43046>>, <<43052, 43052>>, <<43204, 43205>>,
    <<43232, 43249>>, <<43263, 43263>>, <<43302, 43309>>, <<43335, 43345>>, <<43392, 43394>>, <<43443, 43443>>,
    <<43446, 43449>>, <<43452, 43453>>, <<43471, 43471>>, <<43493, 43494>>, <<43561, 43566>>, <<43569, 43570>>,
    <<43573, 43574>>, <<43587, 43587>>, <<43596, 43596>>, <<43632, 43632>>, <<43644, 43644>>, <<43696, 43696>>,
    <<43698, 43700>>, <<43703, 43704>>, <<43710, 43711>>, <<43713, 43713>>, <<43741, 43741>>, <<43756, 43757>>,
    <<43763, 43764>>, <<43766, 43766>>, <<43867, 43871>>, <<43881, 43883>>, <<44005, 44005>>, <<44008, 44008>>,
    <<44013, 44013>>, <<64286, 64286>>, <<64434, 64450>>, <<65024, 65039>>, <<65043, 65043>>, <<65056, 65071>>,
    <<65106, 65106>>, <<65109, 65109>>, <<65279, 65279>>, <<65287, 65287>>, <<65294, 65294>>, <<65306, 65306>>,
    <<65342, 65342>>, <<65344, 65344>>, <<65392, 65392>>, <<65438, 65439>>, <<65507, 65507>>, <<65529, 65531>>,
    <<66045, 66045>>, <<66272, 66272>>, <<66422, 66426>>, <<67456, 67461>>, <<67463, 67504>>, <<67506, 67514>>,
    <<68097, 68099>>, <<68101, 68102>>, <<68108, 68111>>, <<68152, 68154>>, <<68159, 68159>>, <<68325, 68326>>,
    <<68900, 68903>>, <<69291, 69292>>, <<69446, 69456>>, <<69506, 69509>>, <<69633, 69633>>, <<69688, 69702>>,
    <<69744, 69744>>, <<69747, 69748>>, <<69759, 69761>>, <<69811, 69814>>, <<69817, 69818>>, <<69821, 69821>>,
    <<69826, 69826>>, <<69837, 69837>>, <<69888, 69890>>, <<69927, 69931>>, <<69933, 69940>>, <<70003, 70003>>,
    <<70016, 70017>>, <<70070, 70078>>, <<70089, 70092>>, <<70095, 70095>>, <<70191, 70193>>, <<70196, 70196>>,
    <<70198, 70199>>, <<70206, 70206>>, <<70367, 70367>>, <<70371, 70378>>, <<70400, 70401>>, <<70459, 70460>>,
    <<70464, 70464>>, <<70502, 70508>>, <<70512, 70516>>, <<70712, 70719>>, <<70722, 70724>>, <<70726, 70726>>,
    <<70750, 70750>>, <<70835, 70840>>, <<70842, 70842>>, <<70847, 70848>>, <<70850, 70851>>, <<71090, 71093>>,
    <<71100, 71101>>, <<71103, 71104>>, <<71132, 71133>>, <<71219, 71226>>, <<71229, 71229>>, <<71231, 71232>>,
    <<71339, 71339>>, <<71341, 71341>>, <<71344, 71349>>, <<71351, 71351>>, <<71453, 71455>>, <<71458, 71461>>,
    <<71463, 71467>>, <<71727, 71735>>, <<71737, 71738>>, <<71995, 71996>>, <<71998, 71998>>, <<72003, 72003>>,
    <<72148, 72151>>, <<72154, 72155>>, <<72160, 72160>>, <<72193, 72202>>, <<72243, 72248>>, <<72251, 72254>>,
    <<72263, 72263>>, <<72273, 72278>>, <<72281, 72283>>, <<72330, 72342>>, <<72344, 72345>>, <<72752, 72758>>,
    <<72760, 72765>>, <<72767, 72767>>, <<72850, 72871>>, <<72874, 72880>>, <<72882, 72883>>, <<72885, 72886>>,
    <<73009, 73014>>, <<73018, 73018>>, <<73020, 73021>>, <<73023, 73029>>, <<73031, 73031>>, <<73104, 73105>>,
    <<73109, 73109>>, <<73111, 73111>>, <<73459, 73460>>, <<78896, 78904>>, <<92912, 92916>>, <<92976, 92982>>,
    <<92992, 92995>>, <<94031, 94031>>, <<94095, 94111>>, <<94176, 94177>>, <<94179, 94180>>, <<110576, 110579>>,
    <<110581, 110587>>, <<110589, 110590>>, <<113821, 113822>>, <<113824, 113827>>, <<118528, 118573>>, <<118576, 118598>>,
    <<119143, 119145>>, <<119155, 119170>>, <<119173, 119179>>, <<119210, 119213>>, <<119362, 119364>>, <<121344, 121398>>,
    <<121403, 121452>>, <<121461, 121461>>, <<121476, 121476>>, <<121499, 121503>>, <<121505, 121519>>, <<122880, 122886>>,
    <<122888, 122904>>, <<122907, 122913>>, <<122915, 122916>>, <<122918, 122922>>, <<123184, 123197>>, <<123566, 123566>>,
    <<123628, 123631>>, <<125136, 125142>>, <<125252, 125259>>, <<127995, 127999>>, <<917505, 917505>>, <<917536, 917631>>,
    <<917760, 917999>> }

InRanges(c, ranges) == \E r \in ranges : r[1] <= c /\ c <= r[2]

Cased(c) == InRanges(c, CasedRanges)

CaseIgnorable(c) == InRanges(c, CaseIgnorableRanges)

LowerChar(c) ==
    LET hits == {r \in LowerTable :
                    r[1] <= c /\ c <= r[2] /\ (c - r[1]) % r[3] = 0}
    IN  IF hits = {} THEN c ELSE c + (CHOOSE r \in hits : TRUE)[4]

\* whether the capital sigma (931) at s[i] ends a word: the nearest
\* character before it that is not case-ignorable is cased, and the nearest
\* such character after it, if there is one, is not
FinalSigma(s, i) ==
    LET before == {j \in 1..(i - 1) : ~CaseIgnorable(s[j])}
        after == {j \in (i + 1)..Len(s) : ~CaseIgnorable(s[j])}
        last == CHOOSE j \in before : \A k \in before : k <= j
        first == CHOOSE j \in after : \A k \in after : j <= k
    IN  /\ before # {}
        /\ Cased(s[last])
        /\ (after = {} \/ ~Cased(s[first]))

\* what the character at s[i] becomes in s.lower(): the capital sigma lowers
\* to the final sigma (962) at the end of a word and to 963 elsewhere, the
\* capital I with dot above (304) to i followed by the combining dot above
\* (775), every other character to one character
ToLowerFull(s, i) ==
    IF s[i] = 931 THEN << IF FinalSigma(s, i) THEN 962 ELSE 963 >>
    ELSE IF s[i] = 304 THEN <<105, 775>>
    ELSE << LowerChar(s[i]) >>

RECURSIVE LowerFrom(_, _)
LowerFrom(s, i) ==
    IF i > Len(s) THEN <<>> ELSE ToLowerFull(s, i) \o LowerFrom(s, i + 1)

Lower(s) == LowerFrom(s, 1)

Strip(s) ==
    LET keep == {i \in 1..Len(s) : s[i] \notin WhiteChars}
    IN  IF keep = {} THEN <<>>
        ELSE LET lo == CHOOSE i \in keep : \A j \in keep : i <= j
                 hi == CHOOSE i \in keep : \A j \in keep : j <= i
             IN  SubSeq(s, lo, hi)

\* needle in hay, for Python strings
Contains(hay, needle) ==
    \E i \in 0..(Len(hay) - Len(needle)) :
        \A j \in 1..Len(needle) : hay[i + j] = needle[j]

\* the names the job looks for when the environment gives no other
TARGET_SKILL_NAME == Text(<<"_", "V", "o", "i", "c", "e">>)
TARGET_LANGUAGE_NAME == Text(<<"N", "e", "d", "e", "r", "l", "a", "n", "d", "s">>)
TEMPLATE_PHONE_NAME_CONTAINS ==
    Text(<<"W", "e", "b", "R", "T", "C", " ", "-", " ", "G", "e", "n", "e", "s", "y", "s",
      " ", "T", "e", "s", "t", " ", "U", "s", "e", "r", " ", "1">>)

(***************************************************************************)
(* One page of a name lookup.  An entity is [name, id]; a name that is     *)
(* None reads as the empty text because of (s.get("name") or "").          *)
(***************************************************************************)
\* a comparison that trims but does not ignore case
SkillNameMatchesCase(name, needle) == Strip(name) = needle

\* (s.get("name") or "").strip().lower() == needle
SkillNameMatches(name, needle) == Lower(Strip(name)) = needle

PhoneNameMatches(name, needle) == needle # <<>> /\ Contains(Lower(name), needle)

\* index of the first entity of the page whose name matches, 0 if none
FirstSkillMatch(entities, needle) ==
    LET hits == {i \in 1..Len(entities) : SkillNameMatches(entities[i].name, needle)}
    IN  IF hits = {} THEN 0 ELSE CHOOSE i \in hits : \A j \in hits : i <= j

FirstPhoneMatch(entities, needle) ==
    LET hits == {i \in 1..Len(entities) : PhoneNameMatches(entities[i].name, needle)}
    IN  IF hits = {} THEN 0 ELSE CHOOSE i \in hits : \A j \in hits : i <= j

(***************************************************************************)
(* The remote system's data the runs are checked against.                  *)
(***************************************************************************)
Users == {"u1", "u2"}

\* the station the remote system creates for a user, and a foreign one
StationOf(u) == IF u = "u1" THEN "st1" ELSE "st2"
OtherStation == "st9"

NameOf(u) == IF u = "u1" THEN Text(<<"A", "l", "i", "c", "e">>) ELSE Text(<<"B", "o", "b">>)

\* GET /api/v2/users, page by page: [id, name, state]
DirectoryA ==
    << << [id |-> "u1", name |-> NameOf("u1"), state |-> "active"],
          [id |-> "u3", name |-> Text(<<"C", "y">>), state |-> "inactive"] >>,
       << [id |-> "u2", name |-> NameOf("u2"), state |-> "active"] >> >>

\* GET /api/v2/routing/skills: the match is on the second page, in another case
SkillCatalogA ==
    << << [name |-> Text(<<"C", "h", "a", "t">>), id |-> "sk0"] >>,
       << [name |-> Text(<<" ", "_", "v", "o", "i", "c", "e">>), id |-> "sk1"],
          [name |-> Text(<<"_", "V", "O", "I", "C", "E">>), id |-> "sk2"] >> >>
SkillCatalogNone ==
    << << [name |-> Text(<<"_", "V", "o", "i", "c", "e", "2">>), id |-> "sk0"] >> >>

LanguageCatalogA ==
    << << [name |-> Text(<<"E", "n", "g", "l", "i", "s", "h">>), id |-> "lg0"],
          [name |-> Text(<<"n", "e", "d", "e", "r", "l", "a", "n", "d", "s", " ">>), id |-> "lg1"] >> >>
LanguageCatalogNone ==
    << << [name |-> Text(<<"E", "n", "g", "l", "i", "s", "h">>), id |-> "lg0"] >>, << >> >>

PhoneCatalogA ==
    << << [name |-> Text(<<"D", "e", "s", "k">>), id |-> "ph0"],
          [name |-> Text(<<"w", "e", "b", "r", "t", "c", " ", "-", " ", "G", "E", "N", "E", "S",
                      "Y", "S", " ", "t", "e", "s", "t", " ", "u", "s", "e", "r", " ", "1",
                      "0">>), id |-> "ph1"] >> >>
PhoneCatalogNone ==
    << << [name |-> Text(<<"W", "e", "b", "R", "T", "C">>), id |-> "ph0"] >> >>

\* GET /api/v2/telephony/providers/edges/phones/{id}; a key the JSON lacks is
\* Missing, and the dictionary without any key (or an unreadable body) is
\* EmptyTemplate
Missing == "<missing>"
TemplateOK ==
    [site |-> "S", phoneBaseSettings |-> "B", lines |-> << [lineBaseSettings |-> "L"] >>]
TemplateNoLines ==
    [site |-> "S", phoneBaseSettings |-> "B", lines |-> << >>]
TemplateNoLineSettings ==
    [site |-> "S", phoneBaseSettings |-> "B", lines |-> << [lineBaseSettings |-> NoId] >>]
EmptyTemplate == [site |-> Missing, phoneBaseSettings |-> Missing, lines |-> << >>]

\* a capability a user does not carry; a proficiency set by somebody else
NoCap == 0 - 1
ExistingProficiency == 3

\* HTTP status of a response; NoResponse stands for requests raising a
\* RequestException instead of returning one
NoResponse == 0
Statuses == {NoResponse, 200, 201, 202, 204, 500}
Raised(status) == status = NoResponse
\* the remote system carries a mutation out exactly when it answers 2xx
Applied(status) == status \in {200, 201, 202, 204}

VARIABLES
    \* the configuration the job was started with: the MAX_USERS, the
    \* TARGET_SKILL_NAME and the TARGET_LANGUAGE_NAME of the environment
    max_users, target_skill_name, target_language_name,
    \* the remote system
    skillCat, langCat, phoneCat, phoneDetails, directory,
    station,        \* per user: "none", "pending" (created, not yet associated), "assoc"
    skillProf,      \* per user: proficiency of the target skill, NoCap if not carried
    langProf,       \* per user: proficiency of the target language, NoCap if not carried
    \* the program
    pc, runNo, page,
    skill_id, language_id, template_phone_id, template_phone_details,
    users_all, scanIdx, users, idx, ok, fail,
    attempt, station_id, ok1,
    \* what an observer of the requests has seen in the current run
    failedLookup,   \* the resolution step that returned None, "" if none did
    badPage,        \* the page of a skill, language or user listing that was
                    \* answered with a status other than 200, 0 if none was
    fetches,        \* GET /users requests
    posts, puts, skillPatches, langPatches,   \* per user: mutating requests issued
    scanHad,        \* users that had an associated station when they were scanned
    wf,             \* the workflow in progress or just finished
    needFail,       \* finished workflows whose required steps did not all succeed
    succeeded,      \* users whose workflow returned success
    created,        \* users whose creation POST was accepted
    \* what earlier runs left behind
    provisionedBefore, partialBefore,
    \* a call of is_default_station_set on its own: the state and the expected
    \* id it is given and, once it has returned, what it returned
    probe

config == <<max_users, target_skill_name, target_language_name>>
catalogs == <<skillCat, langCat, phoneCat, phoneDetails, directory>>
remoteUsers == <<station, skillProf, langProf>>
resolved == <<skill_id, language_id, template_phone_id, template_phone_details>>
lists == <<users_all, scanIdx, users, idx, ok, fail>>
wfLocals == <<attempt, station_id, ok1>>
counts == <<fetches, posts, puts, skillPatches, langPatches>>
history == <<scanHad, wf, needFail, succeeded, created>>
earlier == <<provisionedBefore, partialBefore>>

vars == <<config, catalogs, remoteUsers, pc, runNo, page, resolved, lists, wfLocals,
          failedLookup, badPage, counts, history, earlier, probe>>

\* post, put: "none", or how the POST and the PUT were answered: "accepted"
\*   or "rejected" (ObservedPost, ObservedPut)
\* assoc: "none", "observed", "unobserved"    putId: station id the PUT carried
\* putReturn: what set_default_station returned, "none", "true", "false"
\* dflt: "none", "verified", "unverified"     reads: verification reads made
\* skill, lang: "none", "present" (the membership read found it), "patched",
\*   "rejected"; skillWas, langWas: the proficiency the user carried when the
\*   PATCH was issued
\* result: "none", "true", "false", "raise"
NoWorkflow ==
    [user |-> NoId, post |-> "none", assoc |-> "none", put |-> "none",
     putId |-> NoId, putReturn |-> "none", dflt |-> "none", reads |-> 0,
     skill |-> "none", skillWas |-> NoCap, lang |-> "none", langWas |-> NoCap,
     result |-> "none"]

ZeroCount == [u \in Users |-> 0]

\* the program's state when run() is entered
FreshRun ==
    /\ pc = "auth"
    /\ page = 1
    /\ skill_id = NoId /\ language_id = NoId /\ template_phone_id = NoId
    /\ template_phone_details = EmptyTemplate
    /\ users_all = <<>> /\ scanIdx = 0 /\ users = <<>> /\ idx = 0 /\ ok = 0 /\ fail = 0
    /\ attempt = 0 /\ station_id = NoId /\ ok1 = FALSE
    /\ failedLookup = "" /\ badPage = 0
    /\ fetches = 0
    /\ posts = ZeroCount /\ puts = ZeroCount
    /\ skillPatches = ZeroCount /\ langPatches = ZeroCount
    /\ scanHad = {} /\ wf = NoWorkflow /\ needFail = 0 /\ succeeded = {}
    /\ created = {}

\* no call of is_default_station_set on its own is looked at
NoProbe == [state |-> <<>>, expected |-> NoId, result |-> "none"]

Init ==
    /\ max_users = MAX_USERS
    /\ target_skill_name = TARGET_SKILL_NAME
    /\ target_language_name = TARGET_LANGUAGE_NAME
    /\ probe = NoProbe
    /\ skillCat \in {SkillCatalogA, SkillCatalogNone}
    /\ langCat \in {LanguageCatalogA, LanguageCatalogNone}
    /\ phoneCat \in {PhoneCatalogA, PhoneCatalogNone}
    /\ phoneDetails \in {TemplateOK, TemplateNoLines, TemplateNoLineSettings}
    /\ directory = DirectoryA
    \* the first user may have a phone, a skill and a language from before
    /\ station \in {[u \in Users |-> IF u = "u1" THEN s ELSE "none"] :
                        s \in {"none", "assoc"}}
    /\ skillProf \in {[u \in Users |-> IF u = "u1" THEN p ELSE NoCap] :
                        p \in {NoCap, ExistingProficiency}}
    /\ langProf = skillProf
    /\ runNo = 1
    /\ FreshRun
    /\ provisionedBefore = {} /\ partialBefore = {}

Falsy(id) == id = NoId

\* raise SystemExit(...) in run()
Abort == pc' = "aborted"
\* an exception nothing catches
Crash == pc' = "crashed"

(***************************************************************************)
(* get_access_token: a token, or None on a refusal or a transport error.   *)
(***************************************************************************)
Authenticate ==
    /\ pc = "auth"
    /\ \E resp \in Statuses :
         IF resp = 200 THEN pc' = "find_skill" ELSE Abort
    /\ UNCHANGED <<config, probe, catalogs, remoteUsers, runNo, page, resolved, lists, wfLocals,
                   failedLookup, badPage, counts, history, earlier>>

(***************************************************************************)
(* One iteration of the while-loop of a paged name lookup.  The result is  *)
(* "raise", "next" (page += 1) or "return" with the id returned (NoId for  *)
(* None).                                                                  *)
(***************************************************************************)
find_routing_skill_id_by_name(cat, pg, resp, skill_name_exact) ==
    LET needle == Lower(Strip(skill_name_exact))
        m == FirstSkillMatch(cat[pg], needle)
    IN  IF Raised(resp) THEN [kind |-> "raise", id |-> NoId]
        ELSE IF resp # 200 THEN [kind |-> "return", id |-> NoId]
        ELSE IF m # 0 THEN [kind |-> "return", id |-> cat[pg][m].id]
        ELSE IF pg >= Len(cat) THEN [kind |-> "return", id |-> NoId]
        ELSE [kind |-> "next", id |-> NoId]

find_routing_language_id_by_name(cat, pg, resp, language_name_exact) ==
    LET needle == Lower(Strip(language_name_exact))
        m == FirstSkillMatch(cat[pg], needle)
    IN  IF Raised(resp) THEN [kind |-> "raise", id |-> NoId]
        ELSE IF resp # 200 THEN [kind |-> "return", id |-> NoId]
        ELSE IF m # 0 THEN [kind |-> "return", id |-> cat[pg][m].id]
        ELSE IF pg >= Len(cat) THEN [kind |-> "return", id |-> NoId]
        ELSE [kind |-> "next", id |-> NoId]

find_phone_id_by_name_contains(cat, pg, resp, name_contains) ==
    LET needle == Lower(Strip(name_contains))
        m == FirstPhoneMatch(cat[pg], needle)
    IN  IF Raised(resp) THEN [kind |-> "raise", id |-> NoId]
        ELSE IF resp # 200 THEN [kind |-> "return", id |-> NoId]
        ELSE IF m # 0 THEN [kind |-> "return", id |-> cat[pg][m].id]
        ELSE IF pg >= Len(cat) THEN [kind |-> "return", id |-> NoId]
        ELSE [kind |-> "next", id |-> NoId]

get_phone_details(details, resp) ==
    IF Raised(resp) THEN [kind |-> "raise", details |-> EmptyTemplate]
    ELSE IF resp # 200 THEN [kind |-> "return", details |-> EmptyTemplate]
    ELSE [kind |-> "return", details |-> details]

\* a run() that does not check what a resolution step returned
RunGoesOnRegardless(missing) == TRUE

\* run(): "if not skill_id: raise SystemExit", and the same for the other three
RunGoesOn(missing) == ~missing

FindSkill ==
    /\ pc = "find_skill"
    /\ \E resp \in Statuses :
         LET r == find_routing_skill_id_by_name(skillCat, page, resp, target_skill_name)
         IN  CASE r.kind = "raise" ->
                    Crash /\ UNCHANGED <<page, skill_id, failedLookup, badPage>>
               [] r.kind = "next" ->
                    page' = page + 1 /\ UNCHANGED <<pc, skill_id, failedLookup, badPage>>
               [] r.kind = "return" ->
                    /\ badPage' = IF resp # 200 THEN page ELSE badPage
                    /\ failedLookup' = IF Falsy(r.id) THEN "skill" ELSE failedLookup
                    /\ skill_id' = r.id
                    /\ page' = 1
                    /\ IF RunGoesOn(Falsy(r.id)) THEN pc' = "find_language" ELSE Abort
    /\ UNCHANGED <<config, probe, catalogs, remoteUsers, runNo, language_id, template_phone_id,
                   template_phone_details, lists, wfLocals, counts, history, earlier>>

FindLanguage ==
    /\ pc = "find_language"
    /\ \E resp \in Statuses :
         LET r == find_routing_language_id_by_name(langCat, page, resp, target_language_name)
         IN  CASE r.kind = "raise" ->
                    Crash /\ UNCHANGED <<page, language_id, failedLookup, badPage>>
               [] r.kind = "next" ->
                    page' = page + 1 /\ UNCHANGED <<pc, language_id, failedLookup, badPage>>
               [] r.kind = "return" ->
                    /\ badPage' = IF resp # 200 THEN page ELSE badPage
                    /\ failedLookup' = IF Falsy(r.id) THEN "language" ELSE failedLookup
                    /\ language_id' = r.id
                    /\ page' = 1
                    /\ IF RunGoesOn(Falsy(r.id)) THEN pc' = "find_phone" ELSE Abort
    /\ UNCHANGED <<config, probe, catalogs, remoteUsers, runNo, skill_id, template_phone_id,
                   template_phone_details, lists, wfLocals, counts, history, earlier>>

FindPhone ==
    /\ pc = "find_phone"
    /\ \E resp \in Statuses :
         LET r == find_phone_id_by_name_contains(phoneCat, page, resp,
                                                 TEMPLATE_PHONE_NAME_CONTAINS)
         IN  CASE r.kind = "raise" ->
                    Crash /\ UNCHANGED <<page, template_phone_id, failedLookup>>
               [] r.kind = "next" ->
                    page' = page + 1 /\ UNCHANGED <<pc, template_phone_id, failedLookup>>
               [] r.kind = "return" ->
                    /\ failedLookup' = IF Falsy(r.id) THEN "template" ELSE failedLookup
                    /\ template_phone_id' = r.id
                    /\ page' = 1
                    /\ IF RunGoesOn(Falsy(r.id)) THEN pc' = "phone_details" ELSE Abort
    /\ UNCHANGED <<config, probe, catalogs, remoteUsers, runNo, skill_id, language_id,
                   template_phone_details, lists, wfLocals, badPage, counts, history,
                   earlier>>

GetPhoneDetails ==
    /\ pc = "phone_details"
    /\ \E resp \in Statuses :
         LET r == get_phone_details(phoneDetails, resp)
             none == r.details = EmptyTemplate
         IN  IF r.kind = "raise"
             THEN Crash /\ UNCHANGED <<template_phone_details, failedLookup>>
             ELSE /\ failedLookup' = IF none THEN "details" ELSE failedLookup
                  /\ template_phone_details' = r.details
                  /\ IF RunGoesOn(none) THEN pc' = "users" ELSE Abort
    /\ UNCHANGED <<config, probe, catalogs, remoteUsers, runNo, page, skill_id, language_id,
                   template_phone_id, lists, wfLocals, badPage, counts, history, earlier>>

(***************************************************************************)
(* get_all_active_users, one iteration of its while-loop.                  *)
(***************************************************************************)
\* users[:n]: the first n users, and for a negative n all but the last -n
SliceTo(seq, n) ==
    IF n >= 0 THEN SubSeq(seq, 1, IF n < Len(seq) THEN n ELSE Len(seq))
    ELSE SubSeq(seq, 1, IF Len(seq) + n > 0 THEN Len(seq) + n ELSE 0)

ActiveUsers(entities) ==
    LET act == SelectSeq(entities, LAMBDA e : e.state = "active")
    IN  [i \in 1..Len(act) |-> [ID |-> act[i].id, Naam |-> act[i].name]]

\* a fetch that gives up what it has gathered when a page fails
get_all_or_no_users(dir, pg, resp, acc) ==
    LET more == acc \o ActiveUsers(dir[pg])
    IN  IF Raised(resp) THEN [kind |-> "raise", users |-> acc]
        ELSE IF resp # 200 THEN [kind |-> "return", users |-> <<>>]
        ELSE IF pg >= Len(dir) THEN [kind |-> "return", users |-> more]
        ELSE IF max_users # 0 /\ Len(more) >= max_users
             THEN [kind |-> "return", users |-> SliceTo(more, max_users)]
        ELSE [kind |-> "next", users |-> more]

get_all_active_users(dir, pg, resp, acc) ==
    LET more == acc \o ActiveUsers(dir[pg])
    IN  IF Raised(resp) THEN [kind |-> "raise", users |-> acc]
        ELSE IF resp # 200 THEN [kind |-> "return", users |-> acc]
        ELSE IF pg >= Len(dir) THEN [kind |-> "return", users |-> more]
        ELSE IF max_users # 0 /\ Len(more) >= max_users
             THEN [kind |-> "return", users |-> SliceTo(more, max_users)]
        ELSE [kind |-> "next", users |-> more]

\* a fetch that forgets to move on to the next page
SamePage(pg) == pg

\* "page += 1"
NextPage(pg) == pg + 1

GetUsers ==
    /\ pc = "users"
    /\ fetches < MaxFetches
    /\ \E resp \in Statuses :
         LET r == get_all_active_users(directory, page, resp, users_all)
         IN  /\ users_all' = r.users
             /\ badPage' = IF ~Raised(resp) /\ resp # 200 THEN page ELSE badPage
             /\ CASE r.kind = "raise" -> Crash /\ UNCHANGED page
                  [] r.kind = "next" -> page' = NextPage(page) /\ UNCHANGED pc
                  [] r.kind = "return" ->
                       /\ page' = 1
                       \* get_users_without_webrtc of an empty list, then
                       \* "if not users: return"
                       /\ pc' = IF r.users = <<>> THEN "nothing" ELSE "scan"
    /\ fetches' = fetches + 1
    /\ UNCHANGED <<config, probe, catalogs, remoteUsers, runNo, resolved, scanIdx, users, idx, ok, fail,
                   wfLocals, failedLookup, posts, puts, skillPatches, langPatches,
                   history, earlier>>

(***************************************************************************)
(* GET /stations?webRtcUserId=: what the remote system can answer with a   *)
(* 200, and the state of the association after that answer.  A created     *)
(* phone becomes associated at a moment the remote system chooses.  Any    *)
(* other response carries no entities.                                     *)
(***************************************************************************)
StationAnswers(u, resp) ==
    IF resp # 200 THEN {[entities |-> <<>>, after |-> station[u]]} ELSE
    CASE station[u] = "none" -> {[entities |-> <<>>, after |-> "none"]}
      [] station[u] = "pending" ->
            {[entities |-> <<>>, after |-> "pending"],
             [entities |-> <<[id |-> StationOf(u)]>>, after |-> "assoc"]}
      [] station[u] = "assoc" ->
            {[entities |-> <<[id |-> StationOf(u)]>>, after |-> "assoc"],
             [entities |-> <<[id |-> NoId]>>, after |-> "assoc"]}

get_webrtc_station_for_user(resp, entities) ==
    IF resp # 200 THEN [has |-> FALSE, id |-> NoId]
    ELSE IF entities = <<>> THEN [has |-> FALSE, id |-> NoId]
    ELSE [has |-> TRUE, id |-> entities[1].id]

\* get_users_without_webrtc: "if not has_webrtc: result.append(u)"
KeepsUser(r) == ~r.has

\* a filter that puts the user it keeps in front of the list
KeptInFront(result, u, r) == IF KeepsUser(r) THEN <<u>> \o result ELSE result

\* the list get_users_without_webrtc is building, after user u was looked up
Kept(result, u, r) == IF KeepsUser(r) THEN Append(result, u) ELSE result

ScanUser ==
    /\ pc = "scan"
    /\ LET u == users_all[scanIdx + 1]
       IN  \E resp \in Statuses : \E a \in StationAnswers(u.ID, resp) :
             LET r == get_webrtc_station_for_user(resp, a.entities)
                 kept == Kept(users, u, r)
             IN  IF Raised(resp)
                 THEN Crash /\ UNCHANGED <<station, users, scanIdx, scanHad>>
                 ELSE /\ station' = [station EXCEPT ![u.ID] = a.after]
                      /\ users' = kept
                      /\ scanIdx' = scanIdx + 1
                      /\ scanHad' = IF station[u.ID] = "assoc"
                                    THEN scanHad \cup {u.ID} ELSE scanHad
                      /\ pc' = IF scanIdx + 1 < Len(users_all) THEN "scan"
                               ELSE IF kept = <<>> THEN "nothing"
                               ELSE "wf_post"
    /\ UNCHANGED <<config, probe, catalogs, skillProf, langProf, runNo, page, resolved, users_all,
                   idx, ok, fail, wfLocals, failedLookup, badPage, counts, wf, needFail,
                   succeeded, created, earlier>>

(***************************************************************************)
(* The per-user workflow, create_webrtc_phone_for_user, called by the loop *)
(* of run().  users[idx + 1] is the user in hand.                          *)
(***************************************************************************)
WebRtcPrefix == Text(<<"W", "e", "b", "R", "T", "C", " ", "-", " ">>)

\* a payload builder that takes the first line's settings without checking
\* that there is a line
build_payload_without_line_check(template_phone, user) ==
    [kind |-> "return",
     payload |-> [name |-> WebRtcPrefix \o user.Naam,
                  site |-> template_phone.site,
                  phoneBaseSettings |-> template_phone.phoneBaseSettings,
                  webRtcUser |-> user.ID,
                  lines |-> << [lineBaseSettings |-> NoId] >>]]

build_payload_from_template(template_phone, user) ==
    IF template_phone.site = Missing \/ template_phone.phoneBaseSettings = Missing
    THEN [kind |-> "raise", payload |-> <<>>]
    ELSE IF template_phone.lines = <<>>
    THEN [kind |-> "raise", payload |-> <<>>]
    ELSE IF Falsy(template_phone.lines[1].lineBaseSettings)
    THEN [kind |-> "raise", payload |-> <<>>]
    ELSE [kind |-> "return",
          payload |-> [name |-> WebRtcPrefix \o user.Naam,
                       site |-> template_phone.site,
                       phoneBaseSettings |-> template_phone.phoneBaseSettings,
                       webRtcUser |-> user.ID,
                       lines |-> << [lineBaseSettings |->
                                       template_phone.lines[1].lineBaseSettings] >>]]

\* what an observer reads off the status of an answered request: endpoint
\* creation succeeds on 200 and 201, set-default-device on 200, 202 and 204,
\* bulk assignment on 200, 201, 202 and 204
ObservedPost(status) == IF status \in {200, 201} THEN "accepted" ELSE "rejected"
ObservedPut(status) == IF status \in {200, 202, 204} THEN "accepted" ELSE "rejected"
ObservedPatch(status) ==
    IF status \in {200, 201, 202, 204} THEN "patched" ELSE "rejected"

\* the status sets the code takes for success
PostAccepted(status) == status \in {200, 201}
PutAccepted(status) == status \in {200, 202, 204}
PatchAccepted(status) == status \in {200, 201, 202, 204}

\* a combined flag that forgets the skill step
LanguageResultOnly(o1, o2) == o2

\* a combined flag that is content with one of the two steps
EitherResult(o1, o2) == o1 \/ o2

\* ensure_user_skill_and_language: "return ok1 and ok2"
ensure_user_skill_and_language(o1, o2) == o1 /\ o2

\* the required steps of a workflow, as the requests and responses show them
RequiredStepsSucceeded(w) ==
    /\ w.post = "accepted"
    /\ w.skill \in {"present", "patched"}
    /\ w.lang \in {"present", "patched"}

\* the loop body of run() after the workflow returned True or False or raised
RunTally(outcome) ==
    IF outcome = "true" THEN <<ok + 1, fail>> ELSE <<ok, fail + 1>>

\* a loop without the try/except around the workflow
RunNextUncaught(outcome) ==
    IF outcome = "raise" THEN "crashed"
    ELSE IF idx + 1 < Len(users) THEN "wf_post" ELSE "done"

\* run() goes on with the next user, or logs DONE
RunNext(outcome) == IF idx + 1 < Len(users) THEN "wf_post" ELSE "done"

EndWorkflow(u, outcome, w) ==
    /\ wf' = [w EXCEPT !.result = outcome]
    /\ ok' = RunTally(outcome)[1]
    /\ fail' = RunTally(outcome)[2]
    /\ idx' = idx + 1
    /\ pc' = RunNext(outcome)
    /\ needFail' = needFail + (IF RequiredStepsSucceeded(w) THEN 0 ELSE 1)
    /\ succeeded' = IF outcome = "true" THEN succeeded \cup {u} ELSE succeeded
    /\ attempt' = 0 /\ station_id' = NoId /\ ok1' = FALSE /\ page' = 1

Step(next, w, att, sid, o1, pg) ==
    /\ pc' = next
    /\ wf' = w
    /\ attempt' = att /\ station_id' = sid /\ ok1' = o1 /\ page' = pg
    /\ UNCHANGED <<idx, ok, fail, needFail, succeeded>>

CreatePhone ==
    /\ pc = "wf_post"
    /\ LET u == users[idx + 1]
           b == build_payload_from_template(template_phone_details, u)
           w == [NoWorkflow EXCEPT !.user = u.ID]
       IN  IF b.kind = "raise"
           THEN /\ EndWorkflow(u.ID, "raise", w)
                /\ UNCHANGED <<station, posts, created>>
           ELSE \E resp \in Statuses :
                  /\ posts' = [posts EXCEPT ![u.ID] = @ + 1]
                  /\ station' = IF Applied(resp) /\ station[u.ID] = "none"
                                THEN [station EXCEPT ![u.ID] = "pending"]
                                ELSE station
                  /\ created' = IF Applied(resp) THEN created \cup {u.ID} ELSE created
                  /\ IF Raised(resp)
                     THEN EndWorkflow(u.ID, "raise", w)
                     ELSE IF ~PostAccepted(resp)
                     THEN EndWorkflow(u.ID, "false", [w EXCEPT !.post = ObservedPost(resp)])
                     ELSE Step("wf_poll", [w EXCEPT !.post = ObservedPost(resp)],
                               0, NoId, FALSE, 1)
    /\ UNCHANGED <<config, probe, catalogs, skillProf, langProf, runNo, resolved, users_all,
                   scanIdx, users, failedLookup, badPage, fetches, puts, skillPatches,
                   langPatches, scanHad, earlier>>

\* a poll loop that runs once too often
MorePollsOffByOne(n) == n <= ASSOC_POLLS

\* "for _ in range(1, 7)": another poll after n polls without an id
MorePolls(n) == n < ASSOC_POLLS

\* a poll that takes any listed station for an association, id or no id
AssociationSeen(r) == r.has

\* "if has_webrtc and station_id"
AssociationObserved(r) == r.has /\ ~Falsy(r.id)

\* a poll loop without the break after set_default_station
AfterDefaultStationNoBreak == "wf_poll"

\* "set_default_station(...); break": whatever set_default_station returned,
\* the workflow goes on with ensure_user_skill_and_language
AfterDefaultStation == "wf_skill"

PollAssociation ==
    /\ pc = "wf_poll"
    /\ LET u == users[idx + 1].ID
       IN  \E resp \in Statuses : \E a \in StationAnswers(u, resp) :
             LET r == get_webrtc_station_for_user(resp, a.entities)
             IN  /\ station' = [station EXCEPT ![u] = a.after]
                 /\ IF Raised(resp)
                    THEN EndWorkflow(u, "raise", wf)
                    ELSE IF AssociationObserved(r)
                    THEN Step("wf_put", [wf EXCEPT !.assoc = "observed"],
                              0, r.id, FALSE, 1)
                    ELSE IF MorePolls(attempt + 1)
                    THEN Step("wf_poll", wf, attempt + 1, NoId, FALSE, 1)
                    ELSE Step("wf_skill", [wf EXCEPT !.assoc = "unobserved"],
                              0, NoId, FALSE, 1)
    /\ UNCHANGED <<config, probe, catalogs, skillProf, langProf, runNo, resolved, users_all,
                   scanIdx, users, failedLookup, badPage, counts, scanHad, created, earlier>>

(***************************************************************************)
(* GET /users/{id}/station.  The JSON read is a function from the six keys *)
(* the code probes to a value [t, s]: t is "absent", "str" (a string s),   *)
(* "dict" (an object whose id is the string s), "dictNoStrId" (an object   *)
(* without a string id) or "other".  None and {} are both EmptyState.      *)
(***************************************************************************)
ProbedKeys == {"defaultStationId", "defaultStation", "stationId",
               "associatedStationId", "associatedStation"}
StateKeys == ProbedKeys \cup {"station"}
Absent == [t |-> "absent", s |-> ""]
EmptyState == [k \in StateKeys |-> Absent]
OneKeyState(k, t, id) == [EmptyState EXCEPT ![k] = [t |-> t, s |-> id]]

StationStates(u, resp) ==
    IF resp # 200 THEN {EmptyState} ELSE
    {EmptyState} \cup
    {OneKeyState(k, t, id) : k \in StateKeys, t \in {"str", "dict"},
                             id \in {StationOf(u), OtherStation}}

get_user_station_state(resp, body) == IF resp # 200 THEN EmptyState ELSE body

\* a test that also takes a string under "station" for an id
is_default_station_set_any_string(state, expected_station_id) ==
    IF state = EmptyState \/ Falsy(expected_station_id) THEN FALSE
    ELSE LET flat == {state[k].s : k \in {j \in StateKeys : state[j].t \in {"str", "dict"}}}
         IN  expected_station_id \in {c \in flat : c # ""}

is_default_station_set(state, expected_station_id) ==
    IF state = EmptyState \/ Falsy(expected_station_id) THEN FALSE
    ELSE LET flat == {state[k].s : k \in {j \in ProbedKeys : state[j].t \in {"str", "dict"}}}
             nested == IF state["station"].t = "dict" THEN {state["station"].s} ELSE {}
             candidates == flat \cup nested
         IN  expected_station_id \in {c \in candidates : c # ""}

\* a verification loop that runs once too often
MoreReadsOffByOne(n) == n <= DEFAULT_STATION_VERIFY_RETRIES

\* "for attempt in range(1, DEFAULT_STATION_VERIFY_RETRIES + 1)": another read
\* after n reads without the expected id
MoreReads(n) == n < DEFAULT_STATION_VERIFY_RETRIES

\* set_default_station: the PUT
SetDefaultStation ==
    /\ pc = "wf_put"
    /\ LET u == users[idx + 1].ID
           w == [wf EXCEPT !.putId = station_id]
       IN  \E resp \in Statuses :
             /\ puts' = [puts EXCEPT ![u] = @ + 1]
             /\ IF Raised(resp)
                THEN EndWorkflow(u, "raise", w)
                ELSE IF ~PutAccepted(resp)
                THEN Step(AfterDefaultStation, [w EXCEPT !.put = ObservedPut(resp), !.putReturn = "false"],
                          0, NoId, FALSE, 1)
                ELSE IF MoreReads(0)
                THEN Step("wf_verify", [w EXCEPT !.put = ObservedPut(resp)],
                          0, station_id, FALSE, 1)
                ELSE Step(AfterDefaultStation, [w EXCEPT !.put = ObservedPut(resp), !.dflt = "unverified",
                                                !.putReturn = "true"],
                          0, NoId, FALSE, 1)
    /\ UNCHANGED <<config, probe, catalogs, station, skillProf, langProf, runNo, resolved, users_all,
                   scanIdx, users, failedLookup, badPage, fetches, posts, skillPatches,
                   langPatches, scanHad, created, earlier>>

\* set_default_station: one iteration of the verification loop
VerifyDefaultStation ==
    /\ pc = "wf_verify"
    /\ LET u == users[idx + 1].ID
       IN  \E resp \in Statuses : \E body \in StationStates(u, resp) :
             LET state == get_user_station_state(resp, body)
                 w == [wf EXCEPT !.reads = @ + 1]
             IN  IF Raised(resp)
                 THEN EndWorkflow(u, "raise", w)
                 ELSE IF is_default_station_set(state, station_id)
                 THEN Step(AfterDefaultStation, [w EXCEPT !.dflt = "verified", !.putReturn = "true"],
                           0, NoId, FALSE, 1)
                 ELSE IF MoreReads(attempt + 1)
                 THEN Step("wf_verify", w, attempt + 1, station_id, FALSE, 1)
                 ELSE Step(AfterDefaultStation, [w EXCEPT !.dflt = "unverified", !.putReturn = "true"],
                           0, NoId, FALSE, 1)
    /\ UNCHANGED <<config, probe, catalogs, remoteUsers, runNo, resolved, users_all, scanIdx, users,
                   failedLookup, badPage, counts, scanHad, created, earlier>>

(***************************************************************************)
(* ensure_user_skill and ensure_user_language.  skillProf and langProf are *)
(* the user's entries for the skill RemoteSkillId and the language         *)
(* RemoteLanguageId; the listing has CapPages pages and the entry, when    *)
(* the user carries it, is on a page the remote system chooses.            *)
(***************************************************************************)
RemoteSkillId == "sk1"
RemoteLanguageId == "lg1"

CapEntities(here, capId) ==
    IF here THEN << [id |-> "other"], [id |-> capId] >> ELSE << [id |-> "other"] >>

\* the entry can be on the page asked for: not when the user lacks it, and
\* on the last page when no earlier page had it
CanBeHere(prof, pg, resp, here) ==
    /\ resp # 200 => ~here
    /\ here => prof # NoCap
    /\ (resp = 200 /\ prof # NoCap /\ pg >= CapPages) => here

\* one iteration of the while-loop of user_has_skill
user_has_skill(pg, resp, entities, capId) ==
    IF Raised(resp) THEN [kind |-> "raise", has |-> FALSE]
    ELSE IF resp # 200 THEN [kind |-> "return", has |-> FALSE]
    ELSE IF \E i \in 1..Len(entities) : entities[i].id = capId
         THEN [kind |-> "return", has |-> TRUE]
    ELSE IF pg >= CapPages THEN [kind |-> "return", has |-> FALSE]
    ELSE [kind |-> "next", has |-> FALSE]

user_has_language(pg, resp, entities, capId) ==
    IF Raised(resp) THEN [kind |-> "raise", has |-> FALSE]
    ELSE IF resp # 200 THEN [kind |-> "return", has |-> FALSE]
    ELSE IF \E i \in 1..Len(entities) : entities[i].id = capId
         THEN [kind |-> "return", has |-> TRUE]
    ELSE IF pg >= CapPages THEN [kind |-> "return", has |-> FALSE]
    ELSE [kind |-> "next", has |-> FALSE]

\* ensure_user_skill: the membership read
CheckUserSkill ==
    /\ pc = "wf_skill"
    /\ LET u == users[idx + 1].ID
       IN  \E resp \in Statuses, here \in BOOLEAN :
             /\ CanBeHere(skillProf[u], page, resp, here)
             /\ LET r == user_has_skill(page, resp, CapEntities(here, RemoteSkillId),
                                        skill_id)
                IN  CASE r.kind = "raise" -> EndWorkflow(u, "raise", wf)
                      [] r.kind = "next" ->
                           Step("wf_skill", wf, 0, NoId, FALSE, page + 1)
                      [] r.kind = "return" ->
                           IF r.has
                           THEN Step("wf_lang",
                                     [wf EXCEPT !.skill = IF here THEN "present" ELSE @],
                                     0, NoId, TRUE, 1)
                           ELSE Step("wf_skill_patch", wf, 0, NoId, FALSE, 1)
    /\ UNCHANGED <<config, probe, catalogs, remoteUsers, runNo, resolved, users_all, scanIdx, users,
                   failedLookup, badPage, counts, scanHad, created, earlier>>

\* ensure_user_skill: the bulk PATCH
AssignSkill ==
    /\ pc = "wf_skill_patch"
    /\ LET u == users[idx + 1].ID
       IN  \E resp \in Statuses :
             LET w == [wf EXCEPT !.skillWas = skillProf[u]]
             IN  /\ skillPatches' = [skillPatches EXCEPT ![u] = @ + 1]
                 /\ skillProf' = IF Applied(resp) /\ skill_id = RemoteSkillId
                                 THEN [skillProf EXCEPT ![u] = TARGET_SKILL_PROFICIENCY]
                                 ELSE skillProf
                 /\ IF Raised(resp)
                    THEN EndWorkflow(u, "raise", w)
                    ELSE IF ~PatchAccepted(resp)
                    THEN Step("wf_lang", [w EXCEPT !.skill = ObservedPatch(resp)],
                              0, NoId, FALSE, 1)
                    ELSE Step("wf_lang", [w EXCEPT !.skill = ObservedPatch(resp)],
                              0, NoId, TRUE, 1)
    /\ UNCHANGED <<config, probe, catalogs, station, langProf, runNo, resolved, users_all, scanIdx,
                   users, failedLookup, badPage, fetches, posts, puts, langPatches, scanHad,
                   created, earlier>>

\* ensure_user_language: the membership read; ok2 = True ends the workflow
CheckUserLanguage ==
    /\ pc = "wf_lang"
    /\ LET u == users[idx + 1].ID
       IN  \E resp \in Statuses, here \in BOOLEAN :
             /\ CanBeHere(langProf[u], page, resp, here)
             /\ LET r == user_has_language(page, resp, CapEntities(here, RemoteLanguageId),
                                            language_id)
                    w == [wf EXCEPT !.lang = IF here THEN "present" ELSE @]
                IN  CASE r.kind = "raise" -> EndWorkflow(u, "raise", wf)
                      [] r.kind = "next" ->
                           Step("wf_lang", wf, 0, NoId, ok1, page + 1)
                      [] r.kind = "return" ->
                           IF r.has
                           THEN EndWorkflow(u,
                                    IF ensure_user_skill_and_language(ok1, TRUE)
                                    THEN "true" ELSE "false", w)
                           ELSE Step("wf_lang_patch", wf, 0, NoId, ok1, 1)
    /\ UNCHANGED <<config, probe, catalogs, remoteUsers, runNo, resolved, users_all, scanIdx, users,
                   failedLookup, badPage, counts, scanHad, created, earlier>>

\* ensure_user_language: the bulk PATCH, then the return of the workflow
AssignLanguage ==
    /\ pc = "wf_lang_patch"
    /\ LET u == users[idx + 1].ID
       IN  \E resp \in Statuses :
             LET w == [wf EXCEPT !.langWas = langProf[u]]
                 ok2 == PatchAccepted(resp)
             IN  /\ langPatches' = [langPatches EXCEPT ![u] = @ + 1]
                 /\ langProf' = IF Applied(resp) /\ language_id = RemoteLanguageId
                                THEN [langProf EXCEPT ![u] = TARGET_LANGUAGE_PROFICIENCY]
                                ELSE langProf
                 /\ IF Raised(resp)
                    THEN EndWorkflow(u, "raise", w)
                    ELSE EndWorkflow(u,
                             IF ensure_user_skill_and_language(ok1, ok2)
                             THEN "true" ELSE "false",
                             [w EXCEPT !.lang = ObservedPatch(resp)])
    /\ UNCHANGED <<config, probe, catalogs, station, skillProf, runNo, resolved, users_all, scanIdx,
                   users, failedLookup, badPage, fetches, posts, puts, skillPatches, scanHad,
                   created, earlier>>

(***************************************************************************)
(* The job is started again (the next scheduled run) once a run has ended. *)
(***************************************************************************)
RunEnded == pc \in {"done", "nothing", "aborted", "crashed"}

FullyProvisioned(u) ==
    station[u] = "assoc" /\ skillProf[u] # NoCap /\ langProf[u] # NoCap

PartiallyProvisioned(u) ==
    station[u] = "assoc" /\ (skillProf[u] = NoCap \/ langProf[u] = NoCap)

NextRun ==
    /\ RunEnded
    /\ runNo < MaxRuns
    /\ runNo' = runNo + 1
    \* what this run has done for users who had no endpoint when it scanned
    \* them, and what earlier runs had done and still stands
    /\ provisionedBefore' =
           {u \in Users : /\ FullyProvisioned(u)
                          /\ u \in (succeeded \ scanHad) \cup provisionedBefore}
    /\ partialBefore' =
           {u \in Users : /\ PartiallyProvisioned(u)
                          /\ u \in (created \ scanHad) \cup partialBefore}
    /\ pc' = "auth"
    /\ page' = 1
    /\ skill_id' = NoId /\ language_id' = NoId /\ template_phone_id' = NoId
    /\ template_phone_details' = EmptyTemplate
    /\ users_all' = <<>> /\ scanIdx' = 0 /\ users' = <<>> /\ idx' = 0
    /\ ok' = 0 /\ fail' = 0
    /\ attempt' = 0 /\ station_id' = NoId /\ ok1' = FALSE
    /\ failedLookup' = "" /\ badPage' = 0
    /\ fetches' = 0
    /\ posts' = ZeroCount /\ puts' = ZeroCount
    /\ skillPatches' = ZeroCount /\ langPatches' = ZeroCount
    /\ scanHad' = {} /\ wf' = NoWorkflow /\ needFail' = 0 /\ succeeded' = {}
    /\ created' = {}
    /\ UNCHANGED <<config, probe, catalogs, remoteUsers>>

Next ==
    \/ Authenticate
    \/ FindSkill
    \/ FindLanguage
    \/ FindPhone
    \/ GetPhoneDetails
    \/ GetUsers
    \/ ScanUser
    \/ CreatePhone
    \/ PollAssociation
    \/ SetDefaultStation
    \/ VerifyDefaultStation
    \/ CheckUserSkill
    \/ AssignSkill
    \/ CheckUserLanguage
    \/ AssignLanguage
    \/ NextRun

Spec == Init /\ [][Next]_vars

(***************************************************************************)
(* The program does not stop between two requests: every request is made   *)
(* with a timeout and returns a response or raises, and every sleep is     *)
(* finite.  One run is followed, started against a remote system in which  *)
(* either user may have a phone, associated or not yet, and the first may  *)
(* carry the skill or the language.                                        *)
(***************************************************************************)
InitLive ==
    /\ max_users = MAX_USERS
    /\ target_skill_name = TARGET_SKILL_NAME
    /\ target_language_name = TARGET_LANGUAGE_NAME
    /\ probe = NoProbe
    /\ skillCat \in {SkillCatalogA, SkillCatalogNone}
    /\ langCat \in {LanguageCatalogA, LanguageCatalogNone}
    /\ phoneCat \in {PhoneCatalogA, PhoneCatalogNone}
    /\ phoneDetails \in {TemplateOK, TemplateNoLines, TemplateNoLineSettings}
    /\ directory = DirectoryA
    /\ station \in [Users -> {"none", "pending", "assoc"}]
    /\ skillProf \in {[u \in Users |-> IF u = "u1" THEN p ELSE NoCap] :
                        p \in {NoCap, ExistingProficiency}}
    /\ langProf \in {[u \in Users |-> IF u = "u1" THEN p ELSE NoCap] :
                        p \in {NoCap, ExistingProficiency}}
    /\ runNo = 1
    /\ FreshRun
    /\ provisionedBefore = {} /\ partialBefore = {}

ProgramStep ==
    \/ Authenticate
    \/ FindSkill
    \/ FindLanguage
    \/ FindPhone
    \/ GetPhoneDetails
    \/ GetUsers
    \/ ScanUser
    \/ CreatePhone
    \/ PollAssociation
    \/ SetDefaultStation
    \/ VerifyDefaultStation
    \/ CheckUserSkill
    \/ AssignSkill
    \/ CheckUserLanguage
    \/ AssignLanguage

SpecLive == InitLive /\ [][ProgramStep]_vars /\ WF_vars(ProgramStep)

(***************************************************************************)
(* The paged fetch of the users on its own: run() has resolved the skill,  *)
(* the language and the template and calls get_all_active_users, then      *)
(* get_users_without_webrtc, for every directory of up to MaxDirPages      *)
(* pages and every MAX_USERS from -MaxNegCap to MaxCap.                    *)
(***************************************************************************)
DirectoryEntities ==
    {[id |-> "u1", name |-> NameOf("u1"), state |-> "active"],
     [id |-> "u2", name |-> NameOf("u2"), state |-> "active"],
     [id |-> "u3", name |-> Text(<<"C", "y">>), state |-> "inactive"]}

\* a page lists up to two users; no user is listed twice in a directory
DirectoryPages ==
    {<<>>} \cup {<<a>> : a \in DirectoryEntities}
           \cup {<<a, b>> : a \in DirectoryEntities, b \in DirectoryEntities}

ListedOnce(dir) ==
    \A i \in 1..Len(dir), j \in 1..Len(dir) :
      \A k \in 1..Len(dir[i]), l \in 1..Len(dir[j]) :
        dir[i][k].id = dir[j][l].id => (i = j /\ k = l)

Directories ==
    {dir \in UNION {[1..n -> DirectoryPages] : n \in 1..MaxDirPages} : ListedOnce(dir)}

\* run() after get_phone_details, for the first target and the template
Resolved ==
    /\ skillCat = SkillCatalogA /\ langCat = LanguageCatalogA
    /\ phoneCat = PhoneCatalogA /\ phoneDetails = TemplateOK
    /\ skill_id = "sk1" /\ language_id = "lg1" /\ template_phone_id = "ph1"
    /\ template_phone_details = TemplateOK

\* nothing fetched, scanned or provisioned yet
NothingDone ==
    /\ runNo = 1 /\ page = 1
    /\ users_all = <<>> /\ scanIdx = 0 /\ users = <<>> /\ idx = 0 /\ ok = 0 /\ fail = 0
    /\ attempt = 0 /\ station_id = NoId /\ ok1 = FALSE
    /\ failedLookup = "" /\ badPage = 0
    /\ fetches = 0
    /\ posts = ZeroCount /\ puts = ZeroCount
    /\ skillPatches = ZeroCount /\ langPatches = ZeroCount
    /\ scanHad = {} /\ wf = NoWorkflow /\ needFail = 0 /\ succeeded = {}
    /\ created = {}
    /\ provisionedBefore = {} /\ partialBefore = {}
    /\ probe = NoProbe

InitFetch ==
    /\ max_users \in (0 - MaxNegCap)..MaxCap
    /\ target_skill_name = TARGET_SKILL_NAME
    /\ target_language_name = TARGET_LANGUAGE_NAME
    /\ directory \in Directories
    /\ Resolved
    /\ station \in {[u \in Users |-> IF u = "u1" THEN s ELSE "none"] :
                        s \in {"none", "assoc"}}
    /\ skillProf = [u \in Users |-> NoCap]
    /\ langProf = skillProf
    /\ pc = "users"
    /\ NothingDone

NextFetch ==
    \/ GetUsers
    \/ ScanUser

SpecFetch == InitFetch /\ [][NextFetch]_vars

(***************************************************************************)
(* Properties.                                                             *)
(***************************************************************************)
NoMutation(u) ==
    posts[u] = 0 /\ puts[u] = 0 /\ skillPatches[u] = 0 /\ langPatches[u] = 0

\* C1: a finished workflow's result is success exactly when the creation POST
\* was answered 200 or 201 and the skill step and the language step both
\* succeeded; how the default-device step went does not enter into it.
C1_ResultIffRequiredSteps ==
    wf.result # "none" => ((wf.result = "true") <=> RequiredStepsSucceeded(wf))

\* successes with each of the three default-device outcomes that are not a
\* verified default: here the PUT was accepted and never verified
C1_Witness ==
    /\ wf.result = "true"
    /\ wf.put = "accepted" /\ wf.dflt = "unverified"

\* C2: no creation POST is issued for a user who had an associated endpoint
\* when the scan looked that user up, whatever the lookup answered.
C2_NoCreationForUserWithEndpoint ==
    \A u \in scanHad : posts[u] = 0

\* C3: a user fully provisioned by an earlier run gets no creation POST and no
\* skill or language PATCH in a later run.
C3_SecondRunIssuesNothing ==
    \A u \in provisionedBefore :
        posts[u] = 0 /\ skillPatches[u] = 0 /\ langPatches[u] = 0

\* C4: once the provisioning loop has started the run ends only by logging
\* DONE; then every user of the filtered list has been processed, ok + fail
\* is their number and fail counts exactly the workflows whose required steps
\* did not all succeed.
C4_FailureIsolation ==
    /\ wf.user # NoId => pc \notin {"crashed", "aborted", "nothing"}
    /\ pc = "done" =>
         /\ idx = Len(users)
         /\ ok + fail = Len(users)
         /\ fail = needFail

\* the first user of two failed and the second was still provisioned
C4_Witness ==
    /\ pc = "done" /\ Len(users) = 2
    /\ fail = 1 /\ ok = 1 /\ wf.result = "true"

\* C5: when the skill, the language, the template endpoint or the template's
\* details cannot be resolved, the run aborts with no user fetched or scanned
\* and no mutating request issued.
C5_ResolutionFailureAborts ==
    failedLookup # "" =>
        /\ pc = "aborted"
        /\ fetches = 0 /\ users_all = <<>> /\ scanIdx = 0
        /\ \A u \in Users : NoMutation(u)

C5_Witness ==
    /\ failedLookup = "details" /\ pc = "aborted"
    /\ skill_id = "sk1" /\ language_id = "lg1" /\ template_phone_id = "ph1"

\* C6: a fetched template without any line stops the run before the
\* provisioning loop, and no user is counted as failed because of it.
C6_NoLinesIsFatal ==
    (template_phone_details # EmptyTemplate /\ template_phone_details.lines = <<>>) =>
        (wf.user = NoId /\ fail = 0)

\* C7: a run that ends normally has issued an assignment PATCH for every user
\* it scanned whom an earlier run left with an associated endpoint but
\* without the skill or the language.
C7_PartialUserIsResumed ==
    (pc \in {"done", "nothing"}) =>
        \A u \in partialBefore \cap scanHad :
            skillPatches[u] + langPatches[u] > 0

\* C8: a bulk-assign PATCH is never issued for a capability the user carries.
C8_NoReassignment ==
    wf.skillWas = NoCap /\ wf.langWas = NoCap

\* C9: with a fetched template that has no line, every workflow raises while
\* building the payload and the run issues no POST, PUT or PATCH.
C9_NoLinesNoMutation ==
    (template_phone_details # EmptyTemplate /\ template_phone_details.lines = <<>>) =>
        /\ \A u \in Users : NoMutation(u)
        /\ wf.user # NoId => wf.result = "raise"

C9_Witness ==
    /\ template_phone_details = TemplateNoLines
    /\ pc = "done" /\ idx = 2 /\ wf.result = "raise"

\* C10: set_default_station returns False exactly when the PUT is answered
\* with a status outside {200, 202, 204}, and then reads nothing; after an
\* accepted PUT it returns True, verified or not, having read the station
\* state at most DEFAULT_STATION_VERIFY_RETRIES times, and it reads no more
\* once a read has shown the expected id.
C10_SetDefaultStation ==
    /\ (wf.putReturn = "false") <=> (wf.put = "rejected")
    /\ wf.put = "rejected" => wf.reads = 0
    /\ wf.put = "accepted" =>
         \/ wf.putReturn = "true" /\ wf.dflt \in {"verified", "unverified"}
         \/ pc = "wf_verify" /\ wf.putReturn = "none" /\ wf.dflt = "none"
         \/ wf.result = "raise" /\ wf.putReturn = "none" /\ wf.dflt = "none"
    /\ wf.reads <= DEFAULT_STATION_VERIFY_RETRIES
    /\ wf.dflt = "verified" => pc # "wf_verify" /\ wf.reads >= 1
    /\ wf.dflt = "unverified" => wf.reads = DEFAULT_STATION_VERIFY_RETRIES
    /\ pc = "wf_verify" => wf.reads < DEFAULT_STATION_VERIFY_RETRIES

C10_Witness ==
    /\ wf.put = "accepted" /\ wf.putReturn = "true" /\ wf.dflt = "unverified"
    /\ wf.reads = DEFAULT_STATION_VERIFY_RETRIES

\* C11: after an accepted creation the association lookup is polled at most
\* ASSOC_POLLS (6) times and not again once a poll has shown an endpoint id;
\* when no poll shows one the workflow still goes on to the skill and the
\* language step, and these two alone decide its result.
C11_PollState ==
    /\ pc = "wf_poll" =>
          (attempt < ASSOC_POLLS /\ wf.post = "accepted" /\ wf.assoc = "none")
    /\ (wf.assoc = "unobserved" /\ wf.result = "none") =>
          pc \in {"wf_skill", "wf_skill_patch", "wf_lang", "wf_lang_patch"}
    /\ (wf.assoc = "unobserved" /\ wf.result \in {"true", "false"}) =>
          /\ wf.skill # "none" /\ wf.lang # "none"
          /\ (wf.result = "true") <=>
                (wf.skill \in {"present", "patched"} /\ wf.lang \in {"present", "patched"})

\* every poll without an id is counted, and the polls are given up only
\* after the sixth
C11_PollStep ==
    /\ (pc = "wf_poll" /\ pc' = "wf_poll") => attempt' = attempt + 1
    /\ (pc = "wf_poll" /\ wf'.assoc = "unobserved") =>
          (attempt + 1 = ASSOC_POLLS /\ pc' = "wf_skill")
    /\ (pc = "wf_poll" /\ wf'.assoc = "observed") => pc' = "wf_put"

\* C11: at most ASSOC_POLLS polls, none after the first that shows an id, and
\* after polls that showed none the skill and the language step are made and
\* alone decide the result.
C11_AssociationPoll == [](C11_PollState) /\ [][C11_PollStep]_vars

C11_Witness ==
    wf.post = "accepted" /\ wf.assoc = "unobserved" /\ wf.result = "true"

(***************************************************************************)
(* The two name lookups on their own: run() after get_access_token, for    *)
(* every skill catalogue, or every language catalogue, of up to            *)
(* MaxDirPages pages.                                                      *)
(***************************************************************************)
SkillEntities ==
    {[name |-> Text(<<"C", "h", "a", "t">>), id |-> "sk0"],
     [name |-> Text(<<"_", "v", "o", "i", "c", "e">>), id |-> "sk1"],
     [name |-> <<12, 8195>> \o Text(<<"_", "V", "O", "I", "C", "E">>) \o <<31, 160>>,
      id |-> "sk2"],
     [name |-> Text(<<"_", "V", "o", "i", "c", "e", "2">>), id |-> "sk3"]}

\* a catalogue for the skill name GreekSkillName, the capital letters
\* omicron, delta, omicron, sigma: the name in small letters with the final
\* sigma (962), the same with the sigma 963, and the name itself between an
\* em space (8195) and a no-break space (160)
GreekSkillName == <<927, 916, 927, 931>>

GreekSkillEntities ==
    {[name |-> <<959, 948, 959, 962>>, id |-> "sk4"],
     [name |-> <<959, 948, 959, 963>>, id |-> "sk5"],
     [name |-> <<8195>> \o GreekSkillName \o <<160>>, id |-> "sk6"]}

LanguageEntities ==
    {[name |-> Text(<<"E", "n", "g", "l", "i", "s", "h">>), id |-> "lg0"],
     [name |-> Text(<<"n", "e", "d", "e", "r", "l", "a", "n", "d", "s", " ">>), id |-> "lg1"],
     [name |-> Text(<<"N", "E", "D", "E", "R", "L", "A", "N", "D", "S">>), id |-> "lg2"]}

\* a catalogue for the language name FrenchLanguageName, "Fran", c with
\* cedilla (231), "ais": the name in capitals (199 is the capital of 231),
\* the name without the cedilla, the name in capitals with the capital I with
\* dot above (304), and the name followed by an ideographic space (12288)
FrenchLanguageName == Text(<<"F", "r", "a", "n">>) \o <<231>> \o Text(<<"a", "i", "s">>)

FrenchLanguageEntities ==
    {[name |-> Text(<<"F", "R", "A", "N">>) \o <<199>> \o Text(<<"A", "I", "S">>),
      id |-> "lg3"],
     [name |-> Text(<<"F", "r", "a", "n", "c", "a", "i", "s">>), id |-> "lg4"],
     [name |-> Text(<<"F", "R", "A", "N">>) \o <<199, 65, 304, 83>>, id |-> "lg5"],
     [name |-> FrenchLanguageName \o <<12288>>, id |-> "lg6"]}

CatalogPages(entities) ==
    {<<>>} \cup {<<a>> : a \in entities} \cup {<<a, b>> : a \in entities, b \in entities}

Catalogs(entities) ==
    {cat \in UNION {[1..n -> CatalogPages(entities)] : n \in 1..MaxDirPages} :
        ListedOnce(cat)}

InitLookup ==
    /\ max_users = MAX_USERS
    /\ \/ /\ skillCat \in Catalogs(SkillEntities) /\ langCat = LanguageCatalogA
          /\ target_skill_name = TARGET_SKILL_NAME
          /\ target_language_name = TARGET_LANGUAGE_NAME
       \/ /\ skillCat = SkillCatalogA /\ langCat \in Catalogs(LanguageEntities)
          /\ target_skill_name = TARGET_SKILL_NAME
          /\ target_language_name = TARGET_LANGUAGE_NAME
       \/ /\ skillCat \in Catalogs(GreekSkillEntities) /\ langCat = LanguageCatalogA
          /\ target_skill_name = GreekSkillName
          /\ target_language_name = TARGET_LANGUAGE_NAME
       \/ /\ skillCat = SkillCatalogA /\ langCat \in Catalogs(FrenchLanguageEntities)
          /\ target_skill_name = TARGET_SKILL_NAME
          /\ target_language_name = FrenchLanguageName
    /\ phoneCat = PhoneCatalogA /\ phoneDetails = TemplateOK
    /\ directory = DirectoryA
    /\ station = [u \in Users |-> "none"]
    /\ skillProf = [u \in Users |-> NoCap]
    /\ langProf = skillProf
    /\ skill_id = NoId /\ language_id = NoId /\ template_phone_id = NoId
    /\ template_phone_details = EmptyTemplate
    /\ pc = "find_skill"
    /\ NothingDone

NextLookup ==
    \/ FindSkill
    \/ FindLanguage

SpecLookup == InitLookup /\ [][NextLookup]_vars

(***************************************************************************)
(* is_default_station_set on its own, for every station state of up to     *)
(* MaxKeys fields and every expected id.                                   *)
(***************************************************************************)
ProbeIds == {StationOf("u1"), StationOf("u2"), ""}

\* what a field of the JSON can hold: a string, an object with a string id,
\* an object without one, anything else
ProbeValues ==
    {[t |-> tp, s |-> id] : tp \in {"str", "dict"}, id \in ProbeIds}
      \cup {[t |-> "dictNoStrId", s |-> ""], [t |-> "other", s |-> ""]}

ProbeStates ==
    {[k \in StateKeys |-> IF k \in DOMAIN f THEN f[k] ELSE Absent] :
        f \in UNION {[K -> ProbeValues] :
                        K \in {X \in SUBSET StateKeys : Cardinality(X) <= MaxKeys}}}

InitStation ==
    /\ max_users = MAX_USERS
    /\ target_skill_name = TARGET_SKILL_NAME
    /\ target_language_name = TARGET_LANGUAGE_NAME
    /\ Resolved
    /\ directory = DirectoryA
    /\ station = [u \in Users |-> "none"]
    /\ skillProf = [u \in Users |-> NoCap]
    /\ langProf = skillProf
    /\ pc = "probe"
    /\ runNo = 1 /\ page = 1
    /\ users_all = <<>> /\ scanIdx = 0 /\ users = <<>> /\ idx = 0 /\ ok = 0 /\ fail = 0
    /\ attempt = 0 /\ station_id = NoId /\ ok1 = FALSE
    /\ failedLookup = "" /\ badPage = 0
    /\ fetches = 0
    /\ posts = ZeroCount /\ puts = ZeroCount
    /\ skillPatches = ZeroCount /\ langPatches = ZeroCount
    /\ scanHad = {} /\ wf = NoWorkflow /\ needFail = 0 /\ succeeded = {}
    /\ created = {}
    /\ provisionedBefore = {} /\ partialBefore = {}
    /\ probe \in {[state |-> st, expected |-> id, result |-> "none"] :
                     st \in ProbeStates, id \in ProbeIds}

CheckDefaultStation ==
    /\ pc = "probe"
    /\ probe.result = "none"
    /\ probe' = [probe EXCEPT !.result =
                    IF is_default_station_set(probe.state, probe.expected)
                    THEN "true" ELSE "false"]
    /\ UNCHANGED <<config, catalogs, remoteUsers, pc, runNo, page, resolved, lists,
                   wfLocals, failedLookup, badPage, counts, history, earlier>>

NextStation == CheckDefaultStation

SpecStation == InitStation /\ [][NextStation]_vars

\* C12: with MAX_USERS = N > 0, get_all_active_users returns at most N users,
\* so that at most N users are scanned.
C12_CapRespected ==
    (pc \in {"scan", "nothing", "wf_post"} /\ max_users > 0) =>
        (Len(users_all) <= max_users /\ scanIdx <= max_users)

\* C13: in one run no user gets more than one creation POST, one
\* set-default-device PUT, one skill PATCH and one language PATCH.
C13_AtMostOnePerSubStep ==
    \A u \in Users :
        posts[u] <= 1 /\ puts[u] <= 1 /\ skillPatches[u] <= 1 /\ langPatches[u] <= 1

\* all four were issued for a user, after polls and verification reads that
\* were repeated
C13_Witness ==
    /\ wf.user # NoId /\ wf.result = "false" /\ wf.reads > 1
    /\ posts[wf.user] = 1 /\ puts[wf.user] = 1
    /\ skillPatches[wf.user] = 1 /\ langPatches[wf.user] = 1

\* C14: when the skill assignment was refused the language step is still
\* made, the skill PATCH is not repeated, and the workflow's flag is true
\* exactly when the skill step and the language step both succeeded.
C14_BothAttemptedCombinedFlag ==
    /\ (wf.skill = "rejected" /\ wf.result = "none") => pc \in {"wf_lang", "wf_lang_patch"}
    /\ (wf.skill = "rejected" /\ wf.result \in {"true", "false"}) =>
          /\ wf.lang # "none"
          /\ wf.result = "false"
          /\ skillPatches[wf.user] = 1
    /\ (wf.skill # "none" /\ wf.result \in {"true", "false"}) =>
          ((wf.result = "true") <=>
              (wf.skill \in {"present", "patched"} /\ wf.lang \in {"present", "patched"}))
    /\ pc \in {"wf_lang", "wf_lang_patch"} =>
          (ok1 <=> wf.skill \in {"present", "patched"})

C14_Witness ==
    wf.skill = "rejected" /\ wf.lang = "patched" /\ wf.result = "false"

\* C15: without a cap, pages are requested in order, one request each; when
\* page k is answered with a status other than 200 the fetch returns the
\* active users of the pages 1..k-1 in page order, and the run goes on with
\* them; otherwise it returns the active users of all the pages.  A user who
\* is not active is never in the result.
C15_PagesBefore(dir, n) ==
    [i \in 1..n |-> dir[i]]

C15_Flatten(pages) ==
    LET idxs == {<<i, k>> : i \in 1..Len(pages), k \in 1..2}
        real == {x \in idxs : x[2] <= Len(pages[x[1]])}
        Before(x, y) == x[1] < y[1] \/ (x[1] = y[1] /\ x[2] < y[2])
        act == {x \in real : pages[x[1]][x[2]].state = "active"}
        Rank(x) == Cardinality({y \in act : Before(y, x)}) + 1
    IN  [r \in 1..Cardinality(act) |->
            LET x == CHOOSE y \in act : Rank(y) = r
            IN  [ID |-> pages[x[1]][x[2]].id, Naam |-> pages[x[1]][x[2]].name]]

\* C15: the fetch without a cap returns the active users of the pages before
\* the first page answered with a status other than 200, in page order, and
\* the run goes on with them.
C15_PartialFetch ==
    max_users = 0 =>
        /\ pc = "users" =>
              /\ fetches = page - 1 /\ badPage = 0
              /\ users_all = C15_Flatten(C15_PagesBefore(directory, page - 1))
        /\ pc \in {"scan", "nothing", "wf_post"} =>
              /\ badPage # 0 =>
                    /\ fetches = badPage
                    /\ users_all = C15_Flatten(C15_PagesBefore(directory, badPage - 1))
              /\ badPage = 0 =>
                    /\ fetches = Len(directory)
                    /\ users_all = C15_Flatten(directory)
              /\ \A i \in 1..Len(users_all) : users_all[i].ID # "u3"
        \* the failed page neither ends the run nor is asked for again
        /\ badPage # 0 =>
              /\ pc \notin {"users", "aborted"}
              /\ pc = "crashed" => scanIdx < Len(users_all)

\* the second of three pages fails: the active user of the first page is
\* returned and scanned, the one of the third is not
C15_Witness ==
    /\ max_users = 0 /\ Len(directory) = 3 /\ badPage = 2
    /\ Len(directory[1]) = 2 /\ directory[1][1].id = "u3" /\ directory[1][2].id = "u1"
    /\ directory[3] = <<[id |-> "u2", name |-> NameOf("u2"), state |-> "active"]>>
    /\ Len(users_all) = 1 /\ users_all[1].ID = "u1"
    /\ pc = "wf_post"

\* C16: the filtered list keeps the order of the fetched list, the users are
\* provisioned in that order, and while a user's workflow has not ended no
\* request has been issued for a later user of the list.
C16_SequentialInOrder ==
    /\ \A i \in 1..Len(users) :
          \E k \in 1..scanIdx :
            /\ users_all[k] = users[i]
            /\ \A j \in 1..Len(users) : \A l \in 1..scanIdx :
                  (i < j /\ users_all[l] = users[j]) => k < l
    /\ (wf.user # NoId /\ wf.result = "none") => wf.user = users[idx + 1].ID
    /\ (wf.user # NoId /\ wf.result # "none") => wf.user = users[idx].ID
    /\ \A j \in 1..Len(users) :
          (j > idx + 1 \/ (j = idx + 1 /\ pc = "wf_post")) => NoMutation(users[j].ID)
    /\ pc \in {"users", "scan"} => \A u \in Users : NoMutation(u)

C16_Witness ==
    /\ pc = "wf_skill" /\ idx = 1 /\ Len(users) = 2
    /\ users[1].ID = "u1" /\ users[2].ID = "u2"
    /\ posts["u1"] = 1 /\ posts["u2"] = 1

\* C17: the skill lookup and the language lookup return the id of the first
\* entity, in page order and then in the order of the page, whose name is the
\* requested name once trimmed and with case ignored, and None only when no
\* entity of any page has such a name.
C17_SameName(a, b) == Lower(Strip(a)) = Lower(Strip(b))

\* the positions <<page, place>> of the first n pages holding the name
C17_Matches(cat, n, name) ==
    {x \in (1..n) \X (1..2) :
        /\ x[2] <= Len(cat[x[1]])
        /\ C17_SameName(cat[x[1]][x[2]].name, name)}

C17_FirstMatch(cat, name) ==
    LET hits == C17_Matches(cat, Len(cat), name)
        first == CHOOSE x \in hits :
                    \A y \in hits : x[1] < y[1] \/ (x[1] = y[1] /\ x[2] <= y[2])
    IN  IF hits = {} THEN NoId ELSE cat[first[1]][first[2]].id

C17_SkillReturned ==
    pc \in {"find_language", "find_phone"} \/ failedLookup \in {"skill", "language"}

C17_LanguageReturned ==
    pc = "find_phone" \/ failedLookup = "language"

\* C17: each lookup returns the id of the first entity with the name, and
\* None only when no entity of any page has it.
C17_FirstMatchOrNone ==
    /\ C17_SkillReturned => skill_id = C17_FirstMatch(skillCat, target_skill_name)
    /\ C17_LanguageReturned =>
          language_id = C17_FirstMatch(langCat, target_language_name)

\* C17 as amended: when every page asked for is answered 200 the lookup
\* returns the id of the first entity with the name, None if no page has
\* one; when page k is answered with another status it returns None, no
\* page before k holding the name, and the pages after k are not looked at.
C17_FirstMatchOnPagesRead ==
    /\ C17_SkillReturned =>
          IF failedLookup = "skill" /\ badPage # 0
          THEN /\ skill_id = NoId
               /\ C17_Matches(skillCat, badPage - 1, target_skill_name) = {}
          ELSE skill_id = C17_FirstMatch(skillCat, target_skill_name)
    /\ C17_LanguageReturned =>
          IF failedLookup = "language" /\ badPage # 0
          THEN /\ language_id = NoId
               /\ C17_Matches(langCat, badPage - 1, target_language_name) = {}
          ELSE language_id = C17_FirstMatch(langCat, target_language_name)

\* "_Voice" over two pages whose only match is "_voice" on the second
C17_Witness ==
    /\ skillCat = << << [name |-> Text(<<"C", "h", "a", "t">>), id |-> "sk0"] >>,
                     << [name |-> Text(<<"_", "v", "o", "i", "c", "e">>), id |-> "sk1"] >> >>
    /\ pc = "find_language" /\ skill_id = "sk1"

\* C18: is_default_station_set is true exactly when the expected id is not
\* empty, the state is not empty, and the expected id is a string under one
\* of the five probed names, or the id of an object under one of them, or
\* the id of the object under "station"; {station: {id: "st1"}} gives true
\* for "st1" and false for "st2".
C18_UnderKnownShape(state, id) ==
    \/ \E k \in ProbedKeys :
          state[k] = [t |-> "str", s |-> id] \/ state[k] = [t |-> "dict", s |-> id]
    \/ state["station"] = [t |-> "dict", s |-> id]

\* C18: is_default_station_set is true exactly for a non-empty expected id
\* found under a known shape of a non-empty state.
C18_DefaultStationTest ==
    probe.result # "none" =>
        /\ (probe.result = "true") <=>
              /\ probe.expected # NoId
              /\ probe.state # EmptyState
              /\ C18_UnderKnownShape(probe.state, probe.expected)
        /\ probe.state = OneKeyState("station", "dict", "st1") =>
              /\ probe.expected = "st1" => probe.result = "true"
              /\ probe.expected = "st2" => probe.result = "false"

C18_Witness ==
    /\ probe.state = OneKeyState("station", "dict", "st1")
    /\ probe.expected = "st1" /\ probe.result = "true"

\* C19: a PUT is issued for a user only after that user's creation POST was
\* accepted and a poll returned an endpoint id, and it carries that id; when
\* no poll returned one there is no PUT; skill and language PATCHes come only
\* after an accepted POST.
C19_MutationOrder ==
    wf.user # NoId =>
        /\ (puts[wf.user] > 0 \/ pc \in {"wf_put", "wf_verify"}) =>
              (wf.post = "accepted" /\ wf.assoc = "observed")
        /\ puts[wf.user] > 0 =>
              (wf.putId # NoId /\ wf.putId = StationOf(wf.user))
        /\ wf.assoc \in {"none", "unobserved"} => puts[wf.user] = 0
        /\ (skillPatches[wf.user] > 0 \/ langPatches[wf.user] > 0
              \/ pc \in {"wf_skill", "wf_skill_patch", "wf_lang", "wf_lang_patch"}) =>
              wf.post = "accepted"
        /\ wf.post # "accepted" =>
              (puts[wf.user] = 0 /\ skillPatches[wf.user] = 0 /\ langPatches[wf.user] = 0)

C19_Witness ==
    /\ wf.user = "u1" /\ wf.putId = "st1" /\ wf.put = "accepted"
    /\ wf.skill = "patched" /\ wf.lang = "patched" /\ wf.result = "true"

\* C20: every run ends, whatever the remote system answers: each paged
\* listing is read up to its page count at most, with one request a page,
\* the association is polled at most ASSOC_POLLS times and the default
\* station read at most DEFAULT_STATION_VERIFY_RETRIES times, and a run that
\* has entered the provisioning loop logs DONE.
C20_LoopsBounded ==
    /\ pc = "find_skill" => page <= Len(skillCat)
    /\ pc = "find_language" => page <= Len(langCat)
    /\ pc = "find_phone" => page <= Len(phoneCat)
    /\ pc = "users" => (page <= Len(directory) /\ fetches = page - 1)
    /\ pc \in {"wf_skill", "wf_lang"} => page <= CapPages
    /\ pc = "wf_poll" => attempt < ASSOC_POLLS
    /\ pc = "wf_verify" =>
          (attempt < DEFAULT_STATION_VERIFY_RETRIES /\ wf.reads = attempt)
    /\ pc \in {"wf_post", "wf_poll", "wf_put", "wf_verify", "wf_skill",
                "wf_skill_patch", "wf_lang", "wf_lang_patch"} => idx < Len(users)

\* C20: the loops are bounded, every run ends, and a run that has entered
\* the provisioning loop logs DONE.
C20_Termination ==
    /\ [](C20_LoopsBounded)
    /\ (pc = "auth") ~> RunEnded
    /\ (pc = "wf_post") ~> (pc = "done")

\* a run that polled six times, read the default station eight times and
\* logged DONE
C20_Witness ==
    /\ pc = "done" /\ wf.assoc = "observed"
    /\ wf.reads = DEFAULT_STATION_VERIFY_RETRIES /\ idx = 2

====
